---- MODULE Spec2Model ----
(***************************************************************************)
(* A model of uniswap_v3_backtester: the tick/liquidity math, the fee      *)
(* calculator, the activity tracker, the rebalancing strategies and the    *)
(* global-clock runner.                                                    *)
(*                                                                         *)
(* Decimal values are exact rationals <<n, d>> in lowest terms (d > 0);    *)
(* the rounding of Decimal to its context precision is not modelled.       *)
(* A call that raises is an outcome record with raised = TRUE.             *)
(***************************************************************************)
EXTENDS Integers, Sequences, FiniteSets, TLC

VARIABLES
    fc,        \* FeeCalculator: position, _timestamps, _fees, _total_fee
    fcCalls,   \* history of the track calls made on fc, with their outcome
    pos,       \* the Position an ActivityTracker was built on (shared object)
    at,        \* ActivityTracker: timestamps, activity, amounts_token0/1
    atCall,    \* the last call made on the tracker or its position
    trCall,    \* the last call of compute_tick_range: its arguments and outcome
    strat,     \* a rebalancing strategy object (with its children)
    stCall,    \* the last call made on strat: arguments, outcome, state before
    stHistory, \* the should_rebalance calls made on strat so far, in order
    input,     \* the contexts a GlobalClockBacktestRunner was constructed on
    runner,    \* the runner: its contexts, its lists, where run() stands
    processed, \* per context, the swaps handed to _process_swap, in order
    ilTracker, \* an ImpermanentLossTracker object
    ilCall,    \* the last call of compute_realized_il or on ilTracker, its outcome
    apr,       \* an APRTracker object
    aprCall,   \* the last call made on apr: arguments, outcome, state before
    compounder, \* a Compounder object (with its triggers)
    cpPosition, \* the Position handed to compounder.compound
    cpCall     \* the last call made on compounder, and the compounds so far

feeVars == <<fc, fcCalls>>
activityVars == <<pos, at, atCall>>
tickRangeVars == <<trCall>>
strategyVars == <<strat, stCall, stHistory>>
runnerVars == <<input, runner, processed>>
ilVars == <<ilTracker, ilCall>>
aprVars == <<apr, aprCall>>
compounderVars == <<compounder, cpPosition, cpCall>>
vars == <<feeVars, activityVars, tickRangeVars, strategyVars, runnerVars, ilVars, aprVars,
          compounderVars>>

\* the value of the variables a specification does not use
Idle == "idle"

(***************************************************************************)
(* Decimal arithmetic                                                      *)
(***************************************************************************)
Abs(x) == IF x < 0 THEN -x ELSE x

RECURSIVE GCD(_, _)
GCD(a, b) == IF b = 0 THEN a ELSE GCD(b, a % b)

\* the rational n/d (d # 0) in lowest terms with a positive denominator
RNorm(n, d) ==
    LET g == GCD(Abs(n), Abs(d))
        s == IF d < 0 THEN -1 ELSE 1
    IN  <<(s * n) \div g, (s * d) \div g>>

RInt(i) == <<i, 1>>
RZero == <<0, 1>>
RAdd(a, b) == RNorm(a[1] * b[2] + b[1] * a[2], a[2] * b[2])
RSub(a, b) == RNorm(a[1] * b[2] - b[1] * a[2], a[2] * b[2])
RMul(a, b) == RNorm(a[1] * b[1], a[2] * b[2])
\* a / b for b # 0; Decimal raises on b = 0, which every caller tests first
RDiv(a, b) == RNorm(a[1] * b[2], a[2] * b[1])
RIsZero(a) == a[1] = 0
RPos(a) == a[1] > 0
RNeg(a) == a[1] < 0

(***************************************************************************)
(* Tick/liquidity math (algo/math.py)                                      *)
(***************************************************************************)
\* 1.0001 ** (1/2) is irrational and the code takes it in binary floating
\* point; the model keeps what the amount formulas use of it, a positive,
\* strictly increasing geometric function of the tick, with this base.
SqrtPriceBase == 2

RECURSIVE IPow(_, _)
IPow(b, e) == IF e = 0 THEN 1 ELSE b * IPow(b, e - 1)

TickToSqrtPrice(tick) ==
    IF tick >= 0 THEN <<IPow(SqrtPriceBase, tick), 1>>
    ELSE <<1, IPow(SqrtPriceBase, -tick)>>

ROne == <<1, 1>>

\* compute_token_amounts_from_liquidity with the two out-of-range results exchanged
ComputeTokenAmountsSwappedBranches(tick_lower, tick_upper, liquidity, current_tick) ==
    LET sqrt_price == TickToSqrtPrice(current_tick)
        sqrt_price_lower == TickToSqrtPrice(tick_lower)
        sqrt_price_upper == TickToSqrtPrice(tick_upper)
        L == liquidity
    IN  IF current_tick <= tick_lower
        THEN <<RZero, RMul(L, RSub(sqrt_price_upper, sqrt_price_lower))>>
        ELSE IF current_tick >= tick_upper
        THEN <<RMul(L, RSub(RDiv(ROne, sqrt_price_lower), RDiv(ROne, sqrt_price_upper))),
               RZero>>
        ELSE <<RMul(L, RSub(RDiv(ROne, sqrt_price), RDiv(ROne, sqrt_price_upper))),
               RMul(L, RSub(sqrt_price, sqrt_price_lower))>>

\* <<amount0, amount1>>
ComputeTokenAmountsFromLiquidity(tick_lower, tick_upper, liquidity, current_tick) ==
    LET sqrt_price == TickToSqrtPrice(current_tick)
        sqrt_price_lower == TickToSqrtPrice(tick_lower)
        sqrt_price_upper == TickToSqrtPrice(tick_upper)
        L == liquidity
    IN  IF current_tick <= tick_lower
        THEN <<RMul(L, RSub(RDiv(ROne, sqrt_price_lower), RDiv(ROne, sqrt_price_upper))),
               RZero>>
        ELSE IF current_tick >= tick_upper
        THEN <<RZero, RMul(L, RSub(sqrt_price_upper, sqrt_price_lower))>>
        ELSE <<RMul(L, RSub(RDiv(ROne, sqrt_price), RDiv(ROne, sqrt_price_upper))),
               RMul(L, RSub(sqrt_price, sqrt_price_lower))>>

(***************************************************************************)
(* ActivityTracker (algo/activity.py)                                      *)
(***************************************************************************)
\* is_active with the upper bound excluded
IsActiveUpperExclusive(position, tick) ==
    position.tick_lower <= tick /\ tick < position.tick_upper

\* ActivityTracker.is_active: reads the bounds of the position at the call
IsActive(position, tick) ==
    position.tick_lower <= tick /\ tick <= position.tick_upper

\* ActivityTracker.track: [position, tracker] after the call
ActivityTrack(position, tracker, swap) ==
    LET active == IsActive(position, swap.tick)
        amounts == ComputeTokenAmountsFromLiquidity(
                       position.tick_lower, position.tick_upper,
                       position.liquidity, swap.tick)
    IN  [position |-> [position EXCEPT !.amount0 = amounts[1], !.amount1 = amounts[2]],
         tracker |-> [tracker EXCEPT
             !.amounts_token0 = Append(@, amounts[1]),
             !.amounts_token1 = Append(@, amounts[2]),
             !.timestamps = Append(@, swap.timestamp),
             !.activity = Append(@, active)]]

(***************************************************************************)
(* Rebalancing strategies (algo/rebalancer.py)                             *)
(*                                                                         *)
(* A strategy is a record; the fields a variant does not have keep their   *)
(* initial value.  kind: "time" TimeTriggeredRebalancer (interval),        *)
(* "oor" OutOfRangeRebalancer, "oord" OutOfRangeDurationRebalancer         *)
(* (interval is its duration), "multi" MultiConditionRebalancer.           *)
(* A call returns an outcome: raised is "none", "ValueError" or            *)
(* "RuntimeError", strat is the strategy after the call.                   *)
(***************************************************************************)
NoTime == -1    \* None in a datetime | None field

\* int(x) of a float x = n/d (d > 0): truncation towards zero
TruncDiv(n, d) == IF n >= 0 THEN n \div d ELSE -((-n) \div d)

\* 0.0 <= bias <= 1.0 for bias = <<n, d>>, d > 0
BiasInRange(bias) == 0 <= bias[1] /\ bias[1] <= bias[2]

\* compute_tick_range without the check of the bias
ComputeTickRangeNoBiasCheck(tick, width, bias) ==
    LET left == TruncDiv(width * bias[1], bias[2])
        right == width - left
    IN  [raised |-> "none", lower |-> tick - left, upper |-> tick + right]

\* compute_tick_range with right = width
ComputeTickRangeRightIsWidth(tick, width, bias) ==
    IF ~BiasInRange(bias)
    THEN [raised |-> "ValueError", lower |-> 0, upper |-> 0]
    ELSE LET left == TruncDiv(width * bias[1], bias[2])
             right == width
         IN  [raised |-> "none", lower |-> tick - left, upper |-> tick + right]

ComputeTickRange(tick, width, bias) ==
    IF ~BiasInRange(bias)
    THEN [raised |-> "ValueError", lower |-> 0, upper |-> 0]
    ELSE LET left == TruncDiv(width * bias[1], bias[2])
             right == width - left
         IN  [raised |-> "none", lower |-> tick - left, upper |-> tick + right]

\* the check of the bounds never raising
TickBoundsNeverInverted(tick_lower, tick_upper) == FALSE

\* check_tick_upper_greater_than_lower: TRUE when it raises
TickBoundsInverted(tick_lower, tick_upper) == tick_upper < tick_lower

RebalanceEvent(context, new_lower, new_upper) ==
    [timestamp |-> context.timestamp, rebalance_tick |-> context.tick,
     new_tick_lower |-> new_lower, new_tick_upper |-> new_upper]

Strategy(kind, interval, since, strategies, mode) ==
    [kind |-> kind, interval |-> interval, last_rebalanced_at |-> NoTime,
     out_of_range_since |-> since, _events |-> <<>>,
     strategies |-> strategies, mode |-> mode]

\* x or y for datetime | None operands
OrElse(x, y) == IF x # NoTime THEN x ELSE y

\* the in-range test with the lower bound excluded
InRangeLowerExclusive(context) ==
    context.tick_lower < context.tick /\ context.tick <= context.tick_upper

\* context.tick_lower <= context.tick <= context.tick_upper
InRange(context) ==
    context.tick_lower <= context.tick /\ context.tick <= context.tick_upper

RECURSIVE ShouldRebalance(_, _)
RECURSIVE ShouldRebalanceEach(_, _)
RECURSIVE ShouldRebalanceEachUntilTrue(_, _)

\* the children evaluated up to the first one that returns true
ShouldRebalanceEachUntilTrue(strategies, context) ==
    IF strategies = <<>>
    THEN [raised |-> "none", checks |-> <<>>, strategies |-> <<>>]
    ELSE LET h == ShouldRebalance(Head(strategies), context)
         IN  IF h.raised # "none" \/ h.result
             THEN [raised |-> h.raised, checks |-> <<h.result>>,
                   strategies |-> <<h.strat>> \o Tail(strategies)]
             ELSE LET r == ShouldRebalanceEachUntilTrue(Tail(strategies), context)
                  IN  [raised |-> r.raised, checks |-> <<h.result>> \o r.checks,
                       strategies |-> <<h.strat>> \o r.strategies]

\* [s.should_rebalance(context) for s in strategies]: every child is
\* evaluated, in list order
ShouldRebalanceEach(strategies, context) ==
    IF strategies = <<>>
    THEN [raised |-> "none", checks |-> <<>>, strategies |-> <<>>]
    ELSE LET h == ShouldRebalance(Head(strategies), context)
         IN  IF h.raised # "none"
             THEN [raised |-> h.raised, checks |-> <<>>,
                   strategies |-> <<h.strat>> \o Tail(strategies)]
             ELSE LET r == ShouldRebalanceEach(Tail(strategies), context)
                  IN  [raised |-> r.raised, checks |-> <<h.result>> \o r.checks,
                       strategies |-> <<h.strat>> \o r.strategies]

\* should_rebalance with the time trigger firing at elapsed = interval
ShouldRebalanceTimeInclusive(s, context) ==
    IF TickBoundsInverted(context.tick_lower, context.tick_upper)
    THEN [raised |-> "ValueError", result |-> FALSE, strat |-> s]
    ELSE CASE s.kind = "time" ->
                [raised |-> "none", strat |-> s,
                 result |-> (context.timestamp
                             - OrElse(s.last_rebalanced_at, context.created_at))
                            >= s.interval]
           [] s.kind = "oor" ->
                [raised |-> "none", strat |-> s, result |-> ~InRange(context)]
           [] s.kind = "oord" ->
                IF InRange(context)
                THEN [raised |-> "none", result |-> FALSE,
                      strat |-> [s EXCEPT !.out_of_range_since = NoTime]]
                ELSE [raised |-> "none", strat |-> s,
                      result |-> (context.timestamp
                                  - OrElse(s.out_of_range_since, context.created_at))
                                 >= s.interval]
           [] s.kind = "multi" ->
                IF s.strategies = <<>>
                THEN [raised |-> "none", result |-> FALSE, strat |-> s]
                ELSE LET r == ShouldRebalanceEach(s.strategies, context)
                     IN  [raised |-> r.raised,
                          strat |-> [s EXCEPT !.strategies = r.strategies],
                          result |->
                              /\ r.raised = "none"
                              /\ IF s.mode = "and"
                                 THEN \A i \in 1 .. Len(r.checks) : r.checks[i]
                                 ELSE \E i \in 1 .. Len(r.checks) : r.checks[i]]

\* should_rebalance with the out-of-range-for-duration variant stamping
\* the start of an excursion on its first out-of-range answer
ShouldRebalanceStampsExcursion(s, context) ==
    IF TickBoundsInverted(context.tick_lower, context.tick_upper)
    THEN [raised |-> "ValueError", result |-> FALSE, strat |-> s]
    ELSE CASE s.kind = "time" ->
                [raised |-> "none", strat |-> s,
                 result |-> (context.timestamp
                             - OrElse(s.last_rebalanced_at, context.created_at))
                            > s.interval]
           [] s.kind = "oor" ->
                [raised |-> "none", strat |-> s, result |-> ~InRange(context)]
           [] s.kind = "oord" ->
                IF InRange(context)
                THEN [raised |-> "none", result |-> FALSE,
                      strat |-> [s EXCEPT !.out_of_range_since = NoTime]]
                ELSE [raised |-> "none",
                      strat |-> [s EXCEPT !.out_of_range_since =
                                              OrElse(@, context.timestamp)],
                      result |-> (context.timestamp
                                  - OrElse(s.out_of_range_since, context.created_at))
                                 >= s.interval]
           [] s.kind = "multi" ->
                IF s.strategies = <<>>
                THEN [raised |-> "none", result |-> FALSE, strat |-> s]
                ELSE LET r == ShouldRebalanceEach(s.strategies, context)
                     IN  [raised |-> r.raised,
                          strat |-> [s EXCEPT !.strategies = r.strategies],
                          result |->
                              /\ r.raised = "none"
                              /\ IF s.mode = "and"
                                 THEN \A i \in 1 .. Len(r.checks) : r.checks[i]
                                 ELSE \E i \in 1 .. Len(r.checks) : r.checks[i]]

ShouldRebalance(s, context) ==
    IF TickBoundsInverted(context.tick_lower, context.tick_upper)
    THEN [raised |-> "ValueError", result |-> FALSE, strat |-> s]
    ELSE CASE s.kind = "time" ->
                [raised |-> "none", strat |-> s,
                 result |-> (context.timestamp
                             - OrElse(s.last_rebalanced_at, context.created_at))
                            > s.interval]
           [] s.kind = "oor" ->
                [raised |-> "none", strat |-> s, result |-> ~InRange(context)]
           [] s.kind = "oord" ->
                IF InRange(context)
                THEN [raised |-> "none", result |-> FALSE,
                      strat |-> [s EXCEPT !.out_of_range_since = NoTime]]
                ELSE [raised |-> "none", strat |-> s,
                      result |-> (context.timestamp
                                  - OrElse(s.out_of_range_since, context.created_at))
                                 >= s.interval]
           [] s.kind = "multi" ->
                IF s.strategies = <<>>
                THEN [raised |-> "none", result |-> FALSE, strat |-> s]
                ELSE LET r == ShouldRebalanceEach(s.strategies, context)
                     IN  [raised |-> r.raised,
                          strat |-> [s EXCEPT !.strategies = r.strategies],
                          result |->
                              /\ r.raised = "none"
                              /\ IF s.mode = "and"
                                 THEN \A i \in 1 .. Len(r.checks) : r.checks[i]
                                 ELSE \E i \in 1 .. Len(r.checks) : r.checks[i]]

RECURSIVE Rebalance(_, _, _)
RECURSIVE RebalanceFirstEligible(_, _, _)

\* the delegation to the first child of the list, whatever it answers
RebalanceFirstChild(strategies, context, bias) ==
    IF strategies = <<>>
    THEN [raised |-> "RuntimeError", lower |-> 0, upper |-> 0, strategies |-> <<>>]
    ELSE LET r == Rebalance(Head(strategies), context, bias)
         IN  [raised |-> r.raised, lower |-> r.lower, upper |-> r.upper,
              strategies |-> <<r.strat>> \o Tail(strategies)]

\* for s in strategies: if s.should_rebalance(context): return s.rebalance(..)
\* and the RuntimeError after the loop; strategies is the list after the call
RebalanceFirstEligible(strategies, context, bias) ==
    IF strategies = <<>>
    THEN [raised |-> "RuntimeError", lower |-> 0, upper |-> 0, strategies |-> <<>>]
    ELSE LET h == ShouldRebalance(Head(strategies), context)
         IN  IF h.raised # "none"
             THEN [raised |-> h.raised, lower |-> 0, upper |-> 0,
                   strategies |-> <<h.strat>> \o Tail(strategies)]
             ELSE IF h.result
             THEN LET r == Rebalance(h.strat, context, bias)
                  IN  [raised |-> r.raised, lower |-> r.lower, upper |-> r.upper,
                       strategies |-> <<r.strat>> \o Tail(strategies)]
             ELSE LET r == RebalanceFirstEligible(Tail(strategies), context, bias)
                  IN  [raised |-> r.raised, lower |-> r.lower, upper |-> r.upper,
                       strategies |-> <<h.strat>> \o r.strategies]

\* rebalance without the update of last_rebalanced_at
RebalanceKeepsLastRebalancedAt(s, context, bias) ==
    IF s.kind = "multi"
    THEN LET r == RebalanceFirstEligible(s.strategies, context, bias)
         IN  [raised |-> r.raised, lower |-> r.lower, upper |-> r.upper,
              strat |-> [s EXCEPT !.strategies = r.strategies]]
    ELSE LET width == context.tick_upper - context.tick_lower
             r == ComputeTickRange(context.tick, width, bias)
             ev == RebalanceEvent(context, r.lower, r.upper)
         IN  IF r.raised # "none"
             THEN [raised |-> r.raised, lower |-> 0, upper |-> 0, strat |-> s]
             ELSE [raised |-> "none", lower |-> r.lower, upper |-> r.upper,
                   strat |->
                       CASE s.kind \in {"time", "oor"} ->
                              [s EXCEPT !._events = Append(@, ev)]
                         [] s.kind = "oord" ->
                              [s EXCEPT !.out_of_range_since = NoTime,
                                        !._events = Append(@, ev)]]

Rebalance(s, context, bias) ==
    IF s.kind = "multi"
    THEN LET r == RebalanceFirstEligible(s.strategies, context, bias)
         IN  [raised |-> r.raised, lower |-> r.lower, upper |-> r.upper,
              strat |-> [s EXCEPT !.strategies = r.strategies]]
    ELSE LET width == context.tick_upper - context.tick_lower
             r == ComputeTickRange(context.tick, width, bias)
             ev == RebalanceEvent(context, r.lower, r.upper)
         IN  IF r.raised # "none"
             THEN [raised |-> r.raised, lower |-> 0, upper |-> 0, strat |-> s]
             ELSE [raised |-> "none", lower |-> r.lower, upper |-> r.upper,
                   strat |->
                       CASE s.kind = "time" ->
                              [s EXCEPT !.last_rebalanced_at = context.timestamp,
                                        !._events = Append(@, ev)]
                         [] s.kind = "oor" ->
                              [s EXCEPT !._events = Append(@, ev)]
                         [] s.kind = "oord" ->
                              [s EXCEPT !.out_of_range_since = NoTime,
                                        !._events = Append(@, ev)]]

RECURSIVE GetEventAt(_, _)
RECURSIVE GetEventAtFirst(_, _)

\* next((e for e in events if e.timestamp == timestamp), None): <<e>> or <<>>
FirstEventAt(events, timestamp) ==
    LET hits == {i \in 1 .. Len(events) : events[i].timestamp = timestamp}
    IN  IF hits = {} THEN <<>>
        ELSE <<events[CHOOSE i \in hits : \A j \in hits : i <= j]>>

GetEventAtFirst(strategies, timestamp) ==
    IF strategies = <<>> THEN <<>>
    ELSE LET e == GetEventAt(Head(strategies), timestamp)
         IN  IF e # <<>> THEN e ELSE GetEventAtFirst(Tail(strategies), timestamp)

\* get_event_at: <<event>>, or <<>> for None
GetEventAt(s, timestamp) ==
    IF s.kind = "multi" THEN GetEventAtFirst(s.strategies, timestamp)
    ELSE FirstEventAt(s._events, timestamp)

(***************************************************************************)
(* Fee, FeeCalculator (algo/fees.py)                                       *)
(***************************************************************************)
Fee(t0, t1) == [token0 |-> t0, token1 |-> t1]
ZeroFee == Fee(RZero, RZero)

\* compute_fee_for_swap: the division is made before the direction is looked at
ComputeFeeForSwap(position, swap) ==
    LET total_liquidity == RAdd(swap.liquidity, position.liquidity)
        liq_share == RDiv(position.liquidity, total_liquidity)
    IN  IF RIsZero(total_liquidity)
        THEN [raised |-> TRUE, fee |-> ZeroFee]    \* decimal division by zero
        ELSE IF RPos(swap.volume_token0) /\ RNeg(swap.volume_token1)
        THEN [raised |-> FALSE,
              fee |-> Fee(RMul(liq_share, RMul(swap.volume_token0, position.pool.fee)), RZero)]
        ELSE IF RPos(swap.volume_token1) /\ RNeg(swap.volume_token0)
        THEN [raised |-> FALSE,
              fee |-> Fee(RZero, RMul(liq_share, RMul(swap.volume_token1, position.pool.fee)))]
        ELSE [raised |-> FALSE, fee |-> ZeroFee]

\* FeeCalculator.track with the totals incremented on both branches
FeeTrackAlwaysAccrue(calc, swap, is_active) ==
    LET r == ComputeFeeForSwap(calc.position, swap)
    IN  IF r.raised
        THEN [raised |-> TRUE, calc |-> calc]
        ELSE [raised |-> FALSE,
              calc |-> [calc EXCEPT
                  !._timestamps = Append(@, swap.timestamp),
                  !._fees = Append(@, IF is_active THEN r.fee ELSE ZeroFee),
                  !._total_fee = Fee(RAdd(@.token0, r.fee.token0),
                                     RAdd(@.token1, r.fee.token1))]]

\* FeeCalculator.track keeping a record of the active swaps only
FeeTrackActiveOnly(calc, swap, is_active) ==
    LET r == ComputeFeeForSwap(calc.position, swap)
    IN  IF r.raised
        THEN [raised |-> TRUE, calc |-> calc]
        ELSE IF is_active
        THEN [raised |-> FALSE,
              calc |-> [calc EXCEPT
                  !._timestamps = Append(@, swap.timestamp),
                  !._fees = Append(@, r.fee),
                  !._total_fee = Fee(RAdd(@.token0, r.fee.token0),
                                     RAdd(@.token1, r.fee.token1))]]
        ELSE [raised |-> FALSE, calc |-> calc]

\* FeeCalculator.track: the fee is computed first, so a raise leaves the
\* calculator as it was
FeeTrack(calc, swap, is_active) ==
    LET r == ComputeFeeForSwap(calc.position, swap)
    IN  IF r.raised
        THEN [raised |-> TRUE, calc |-> calc]
        ELSE IF is_active
        THEN [raised |-> FALSE,
              calc |-> [calc EXCEPT
                  !._timestamps = Append(@, swap.timestamp),
                  !._fees = Append(@, r.fee),
                  !._total_fee = Fee(RAdd(@.token0, r.fee.token0),
                                     RAdd(@.token1, r.fee.token1))]]
        ELSE [raised |-> FALSE,
              calc |-> [calc EXCEPT
                  !._timestamps = Append(@, swap.timestamp),
                  !._fees = Append(@, ZeroFee)]]

GetTotalFees(calc) == calc._total_fee

\* the per-token sum of a list of Fee records
RECURSIVE SumFees(_)
SumFees(fees) ==
    IF fees = <<>> THEN ZeroFee
    ELSE LET rest == SumFees(Tail(fees))
         IN  Fee(RAdd(Head(fees).token0, rest.token0), RAdd(Head(fees).token1, rest.token1))

(***************************************************************************)
(* Rebalanced amounts, impermanent loss (algo/math.py, Impermanent_Loss.py)*)
(***************************************************************************)
\* compute_token1_for_fixed_token0: [raised, liquidity, amount1]; Decimal
\* raises on the division when sqrtB = sqrtA (a range of width zero)
ComputeToken1ForFixedToken0(amount0, tick_lower, tick_upper, current_tick) ==
    LET sqrtA == TickToSqrtPrice(tick_lower)
        sqrtB == TickToSqrtPrice(tick_upper)
        sqrtP == TickToSqrtPrice(current_tick)
    IN  IF current_tick <= tick_lower
        THEN IF RIsZero(RSub(sqrtB, sqrtA))
             THEN [raised |-> "ArithmeticError", liquidity |-> RZero, amount1 |-> RZero]
             ELSE [raised |-> "none", amount1 |-> RZero,
                   liquidity |-> RDiv(RMul(RMul(amount0, sqrtA), sqrtB), RSub(sqrtB, sqrtA))]
        ELSE IF current_tick >= tick_upper
        THEN [raised |-> "none", liquidity |-> RZero, amount1 |-> RZero]
        ELSE LET liquidity == RDiv(RMul(RMul(amount0, sqrtP), sqrtB), RSub(sqrtB, sqrtP))
             IN  [raised |-> "none", liquidity |-> liquidity,
                  amount1 |-> RMul(liquidity, RSub(sqrtP, sqrtA))]

\* compute_impermanent_loss resolving entry_tick = 0 to the value 0
ComputeImpermanentLossZeroEntry(current_tick, entry_tick, min_tick, max_tick) ==
    IF entry_tick = 0
    THEN [raised |-> "none", il |-> RZero]
    ELSE IF min_tick = entry_tick /\ max_tick = entry_tick
    THEN [raised |-> "ArithmeticError", il |-> <<>>]
    ELSE [raised |-> "none",
          il |-> <<"il", current_tick, entry_tick, min_tick, max_tick>>]

\* compute_impermanent_loss for 0 < min_tick <= current_tick <= max_tick
\* and min_tick <= entry_tick <= max_tick, or entry_tick = 0.  The value
\* needs square roots; it is kept as the term of its four arguments, which
\* determine it.  It raises on the division by entry_tick = 0 and, for
\* min_tick = max_tick = entry_tick, on the zero denominator of `factor`.
ComputeImpermanentLoss(current_tick, entry_tick, min_tick, max_tick) ==
    IF entry_tick = 0 \/ (min_tick = entry_tick /\ max_tick = entry_tick)
    THEN [raised |-> "ArithmeticError", il |-> <<>>]
    ELSE [raised |-> "none",
          il |-> <<"il", current_tick, entry_tick, min_tick, max_tick>>]

\* ImpermanentLossTracker.__init__
ImpermanentLossTracker(entry_tick, entry_token0, entry_token1, tick_lower, tick_upper) ==
    [entry_tick |-> entry_tick,
     entry_token0_ratio |->
         IF RPos(RAdd(entry_token0, entry_token1))
         THEN RDiv(entry_token0, RAdd(entry_token0, entry_token1))
         ELSE <<1, 2>>,
     tick_lower |-> tick_lower, tick_upper |-> tick_upper,
     il_series |-> <<>>, realized_il_series |-> <<>>]

\* ImpermanentLossTracker.track_il: [raised, tracker]
TrackIl(tracker, timestamp, current_tick) ==
    LET clamped_tick ==
            IF current_tick < tracker.tick_lower THEN tracker.tick_lower
            ELSE IF current_tick > tracker.tick_upper THEN tracker.tick_upper
            ELSE current_tick
        r == ComputeImpermanentLoss(clamped_tick, tracker.entry_tick,
                                    tracker.tick_lower, tracker.tick_upper)
    IN  IF r.raised # "none"
        THEN [raised |-> r.raised, tracker |-> tracker]
        ELSE [raised |-> "none",
              tracker |-> [tracker EXCEPT !.il_series = Append(@, <<timestamp, r.il>>)]]

\* compute_realized_il without the test of the denominator
ComputeRealizedIlUnguarded(entry_token0_ratio, current_token0_ratio, target_token0_ratio, full_il) ==
    LET denominator == RSub(entry_token0_ratio, current_token0_ratio)
        numerator == RSub(target_token0_ratio, current_token0_ratio)
    IN  IF target_token0_ratio = current_token0_ratio
        THEN [raised |-> "none", value |-> RZero]
        ELSE IF RIsZero(denominator)
        THEN [raised |-> "ArithmeticError", value |-> <<>>]
        ELSE [raised |-> "none",
              value |-> RMul(RMul(RDiv(<<Abs(numerator[1]), numerator[2]>>,
                                       <<Abs(denominator[1]), denominator[2]>>),
                                  full_il), RInt(100))]

\* compute_realized_il: [raised, value]
ComputeRealizedIl(entry_token0_ratio, current_token0_ratio, target_token0_ratio, full_il) ==
    LET denominator == RSub(entry_token0_ratio, current_token0_ratio)
        numerator == RSub(target_token0_ratio, current_token0_ratio)
    IN  IF target_token0_ratio = current_token0_ratio
        THEN [raised |-> "none", value |-> RZero]
        ELSE IF RIsZero(denominator)
        THEN [raised |-> "none", value |-> RZero]
        ELSE [raised |-> "none",
              value |-> RMul(RMul(RDiv(<<Abs(numerator[1]), numerator[2]>>,
                                       <<Abs(denominator[1]), denominator[2]>>),
                                  full_il), RInt(100))]

\* get_il_series / get_realized_il_series: the pairs unzipped
ILTimeseries(series) ==
    [timestamps |-> [i \in 1 .. Len(series) |-> series[i][1]],
     values |-> [i \in 1 .. Len(series) |-> series[i][2]]]

(***************************************************************************)
(* APRTracker (algo/apr.py)                                                *)
(***************************************************************************)
\* the length of a calendar day in the time unit of the timestamps
DayLength == 2
\* 2 ** 96, the fixed-point unit of sqrt_price_x96, in the model's scale
Q96 == 4

\* datetime(ts.year, ts.month, ts.day)
DayOf(timestamp) == (timestamp \div DayLength) * DayLength

\* _scale: amount / Decimal(10 ** decimals), decimals >= 0
Scale(amount, decimals) == RDiv(amount, RInt(IPow(10, decimals)))

\* APRTracker.__init__
APRTracker(initial_token0, initial_token1, initial_tick, token0_decimals, token1_decimals) ==
    [initial_token0_scaled |-> Scale(initial_token0, token0_decimals),
     initial_token1_scaled |-> Scale(initial_token1, token1_decimals),
     initial_tick |-> initial_tick,
     token0_decimals |-> token0_decimals, token1_decimals |-> token1_decimals,
     start_date |-> NoTime,
     end_states_by_day |-> <<>>]

\* the dictionary d with d[key] = value
DictPut(d, key, value) == [k \in (DOMAIN d) \cup {key} |-> IF k = key THEN value ELSE d[k]]

\* APRTracker.track keeping the first snapshot of a day
AprTrackKeepsFirstOfDay(tracker, timestamp, token0, token1, fee_token0, fee_token1, sqrtPriceX96) ==
    LET day == DayOf(timestamp)
    IN  [tracker EXCEPT
            !.start_date = IF @ = NoTime THEN day ELSE @,
            !.end_states_by_day =
                IF day \in DOMAIN @ THEN @
                ELSE DictPut(@, day,
                             <<Scale(token0, tracker.token0_decimals),
                               Scale(token1, tracker.token1_decimals),
                               Scale(fee_token0, tracker.token0_decimals),
                               Scale(fee_token1, tracker.token1_decimals),
                               sqrtPriceX96>>)]

\* APRTracker.track
AprTrack(tracker, timestamp, token0, token1, fee_token0, fee_token1, sqrtPriceX96) ==
    LET day == DayOf(timestamp)
    IN  [tracker EXCEPT
            !.start_date = IF @ = NoTime THEN day ELSE @,
            !.end_states_by_day =
                DictPut(@, day,
                        <<Scale(token0, tracker.token0_decimals),
                          Scale(token1, tracker.token1_decimals),
                          Scale(fee_token0, tracker.token0_decimals),
                          Scale(fee_token1, tracker.token1_decimals),
                          sqrtPriceX96>>)]

\* Decimal(10 ** (token0_decimals - token1_decimals))
DecimalAdjustment(token0_decimals, token1_decimals) ==
    IF token0_decimals >= token1_decimals
    THEN RInt(IPow(10, token0_decimals - token1_decimals))
    ELSE <<1, IPow(10, token1_decimals - token0_decimals)>>

\* sqrtPriceX96_to_price_adjusted
SqrtPriceX96ToPriceAdjusted(sqrtPriceX96, token0_decimals, token1_decimals) ==
    LET sqrt_price == RDiv(RInt(sqrtPriceX96), RInt(Q96))
        price_raw == RMul(sqrt_price, sqrt_price)
    IN  RMul(price_raw, DecimalAdjustment(token0_decimals, token1_decimals))

SetMax(S) == CHOOSE x \in S : \A y \in S : y <= x

\* the body of the loop with the return scaled to a year, by 365 / days_elapsed
AprOnDateAnnualized(tracker, query_date) ==
    LET valid_days == {d \in DOMAIN tracker.end_states_by_day : d <= query_date}
        state == tracker.end_states_by_day[SetMax(valid_days)]
        price == SqrtPriceX96ToPriceAdjusted(state[5], tracker.token0_decimals,
                                             tracker.token1_decimals)
        lp_value_token1 == RAdd(RAdd(state[2], state[4]),
                                RMul(RAdd(state[1], state[3]), price))
        hodl_value_token1 == RAdd(tracker.initial_token1_scaled,
                                  RMul(tracker.initial_token0_scaled, price))
        net_gain == RSub(lp_value_token1, hodl_value_token1)
        days_elapsed == (query_date - tracker.start_date) \div DayLength
    IN  IF query_date <= tracker.start_date \/ valid_days = {} \/ days_elapsed < 1
        THEN [raised |-> "none", skip |-> TRUE, apr |-> RZero]
        ELSE IF RIsZero(hodl_value_token1)
        THEN [raised |-> "ArithmeticError", skip |-> TRUE, apr |-> RZero]
        ELSE [raised |-> "none", skip |-> FALSE,
              apr |-> RMul(RMul(RDiv(net_gain, hodl_value_token1), RInt(100)),
                           <<365, days_elapsed>>)]

\* the body of the loop of compute_apr_on_dates for one query date:
\* [raised, skip, apr]
AprOnDate(tracker, query_date) ==
    LET valid_days == {d \in DOMAIN tracker.end_states_by_day : d <= query_date}
        state == tracker.end_states_by_day[SetMax(valid_days)]
        price == SqrtPriceX96ToPriceAdjusted(state[5], tracker.token0_decimals,
                                             tracker.token1_decimals)
        lp_value_token1 == RAdd(RAdd(state[2], state[4]),
                                RMul(RAdd(state[1], state[3]), price))
        hodl_value_token1 == RAdd(tracker.initial_token1_scaled,
                                  RMul(tracker.initial_token0_scaled, price))
        net_gain == RSub(lp_value_token1, hodl_value_token1)
        days_elapsed == (query_date - tracker.start_date) \div DayLength
    IN  IF query_date <= tracker.start_date \/ valid_days = {} \/ days_elapsed < 1
        THEN [raised |-> "none", skip |-> TRUE, apr |-> RZero]
        ELSE IF RIsZero(hodl_value_token1)
        THEN [raised |-> "ArithmeticError", skip |-> TRUE, apr |-> RZero]
        ELSE [raised |-> "none", skip |-> FALSE,
              apr |-> RMul(RDiv(net_gain, hodl_value_token1), RInt(100))]

RECURSIVE AprLoop(_, _)
AprLoop(tracker, query_dates) ==
    IF query_dates = <<>>
    THEN [raised |-> "none", dates |-> <<>>, aprs |-> <<>>]
    ELSE LET h == AprOnDate(tracker, Head(query_dates))
         IN  IF h.raised # "none"
             THEN [raised |-> h.raised, dates |-> <<>>, aprs |-> <<>>]
             ELSE LET r == AprLoop(tracker, Tail(query_dates))
                  IN  IF h.skip THEN r
                      ELSE [raised |-> r.raised,
                            dates |-> <<Head(query_dates)>> \o r.dates,
                            aprs |-> <<h.apr>> \o r.aprs]

\* APRTracker.compute_apr_on_dates: [raised, dates, aprs]
ComputeAprOnDates(tracker, query_dates) ==
    IF tracker.start_date = NoTime
    THEN [raised |-> "none", dates |-> <<>>, aprs |-> <<>>]
    ELSE AprLoop(tracker, query_dates)

(***************************************************************************)
(* Compounder, TimeTrigger (algo/compounder.py)                            *)
(*                                                                         *)
(* A CompounderContext is a record [timestamp, created_at,                 *)
(* accumulated_fees]; compound assigns to its accumulated_fees.            *)
(***************************************************************************)
CompoundEvent(timestamp, added_token0, added_token1) ==
    [timestamp |-> timestamp, added_token0 |-> added_token0, added_token1 |-> added_token1]

\* TimeTrigger(start_delay=..., last_compounded=...)
TimeTrigger(start_delay, last_compounded) ==
    [start_delay |-> start_delay, last_compounded |-> last_compounded]

\* TimeTrigger.is_triggered
IsTriggered(trigger, context) ==
    LET reference_time == OrElse(trigger.last_compounded, context.created_at)
    IN  context.timestamp - reference_time >= trigger.start_delay

\* Compounder(interval=..., triggers=..., mode=...)
Compounder(interval, triggers, mode) ==
    [interval |-> interval, triggers |-> triggers, mode |-> mode,
     last_compounded |-> NoTime, _compound_events |-> <<>>]

\* should_compound without the test of the interval
ShouldCompoundAnyTime(c, context) ==
    IF c.triggers = <<>> THEN TRUE
    ELSE LET results == [k \in 1 .. Len(c.triggers) |-> IsTriggered(c.triggers[k], context)]
         IN  IF c.mode = "and" THEN \A k \in 1 .. Len(results) : results[k]
             ELSE \E k \in 1 .. Len(results) : results[k]

\* Compounder.should_compound
ShouldCompound(c, context) ==
    IF c.last_compounded # NoTime /\ context.timestamp - c.last_compounded < c.interval
    THEN FALSE
    ELSE IF c.triggers = <<>> THEN TRUE
    ELSE LET results == [k \in 1 .. Len(c.triggers) |-> IsTriggered(c.triggers[k], context)]
         IN  IF c.mode = "and" THEN \A k \in 1 .. Len(results) : results[k]
             ELSE \E k \in 1 .. Len(results) : results[k]

\* compound adding the accumulated fees of the context, not its fees argument
CompoundAddsAccumulated(c, position, fees, context) ==
    [position |-> [position EXCEPT !.amount0 = RAdd(@, context.accumulated_fees.token0),
                                   !.amount1 = RAdd(@, context.accumulated_fees.token1)],
     compounder |-> [c EXCEPT
         !._compound_events = Append(@, CompoundEvent(context.timestamp,
                                                      context.accumulated_fees.token0,
                                                      context.accumulated_fees.token1)),
         !.last_compounded = context.timestamp],
     context |-> [context EXCEPT !.accumulated_fees = ZeroFee]]

\* Compounder.compound: the position, the compounder and the context after it
Compound(c, position, fees, context) ==
    [position |-> [position EXCEPT !.amount0 = RAdd(@, fees.token0),
                                   !.amount1 = RAdd(@, fees.token1)],
     compounder |-> [c EXCEPT
         !._compound_events = Append(@, CompoundEvent(context.timestamp,
                                                      fees.token0, fees.token1)),
         !.last_compounded = context.timestamp],
     context |-> [context EXCEPT !.accumulated_fees = ZeroFee]]

\* Compounder.get_total_compounded_fees
RECURSIVE SumCompounded(_)
SumCompounded(events) ==
    IF events = <<>> THEN ZeroFee
    ELSE LET rest == SumCompounded(Tail(events))
         IN  Fee(RAdd(Head(events).added_token0, rest.token0),
                 RAdd(Head(events).added_token1, rest.token1))
GetTotalCompoundedFees(c) == SumCompounded(c._compound_events)

(***************************************************************************)
(* PositionSimulationContext, GlobalClockBacktestRunner (algo/backtester.py)*)
(*                                                                         *)
(* A context is a record; position is the one Position object that the     *)
(* context, its tracker and its calculator refer to; an Optional field is  *)
(* <<>> for None and <<x>> otherwise.  A swap of a context is named by its *)
(* index in swap_series.swaps.  A runner is a record of the fields of the  *)
(* object and of the position of run() in its loops.                       *)
(***************************************************************************)
PositionSimulationContext(position, created_at, swaps, il_tracker, apr_tracker, rebalancer) ==
    [position |-> position, created_at |-> created_at, swaps |-> swaps,
     tracker |-> [timestamps |-> <<>>, activity |-> <<>>,
                  amounts_token0 |-> <<>>, amounts_token1 |-> <<>>],
     calculator |-> [_timestamps |-> <<>>, _fees |-> <<>>, _total_fee |-> ZeroFee],
     il_tracker |-> il_tracker, apr_tracker |-> apr_tracker, rebalancer |-> rebalancer]

SetMin(S) == CHOOSE x \in S : \A y \in S : x <= y

\* sorted(S) for a finite set of integers
RECURSIVE Sorted(_)
Sorted(S) == IF S = {} THEN <<>> ELSE <<SetMin(S)>> \o Sorted(S \ {SetMin(S)})

\* {swap.timestamp for ctx in contexts for swap in ctx.swap_series.swaps}
SwapTimestamps(contexts) ==
    UNION {{contexts[i].swaps[k].timestamp : k \in 1 .. Len(contexts[i].swaps)} :
           i \in 1 .. Len(contexts)}

\* GlobalClockBacktestRunner.__init__; run() has not entered its loops
GlobalClockBacktestRunner(contexts) ==
    [contexts |-> contexts,
     global_timestamps |-> Sorted(SwapTimestamps(contexts)),
     token_balances |-> [i \in 1 .. Len(contexts) |-> <<>>],
     token_compositions |-> [i \in 1 .. Len(contexts) |-> <<>>],
     tick_contexts |-> [i \in 1 .. Len(contexts) |-> <<>>],
     rebalance_events |-> [i \in 1 .. Len(contexts) |-> <<>>],
     pc |-> "run", raised |-> "none",
     ti |-> 0, ci |-> Len(contexts), pending |-> <<>>,
     results |-> <<>>]

\* [s for s in swaps if s.timestamp <= t]
SwapsUpTo(swaps, t) ==
    SelectSeq([k \in 1 .. Len(swaps) |-> k], LAMBDA k : swaps[k].timestamp <= t)

\* swaps_at_t = [s for s in context.swap_series.swaps if s.timestamp == t]
SwapsAt(swaps, t) ==
    SelectSeq([k \in 1 .. Len(swaps) |-> k], LAMBDA k : swaps[k].timestamp = t)

\* the calculator object, which holds a reference to the position
CalculatorOf(context) == [position |-> context.position] @@ context.calculator

\* the fields of the calculator without the position it refers to
CalculatorState(calc) ==
    [_timestamps |-> calc._timestamps, _fees |-> calc._fees, _total_fee |-> calc._total_fee]

\* _process_swap, lines 98-100, with one composition list shared by all
\* the contexts
ProcessSwapTrackSharedCompositions(r, i, swap, timestamp) ==
    LET c == r.contexts[i]
        t == ActivityTrack(c.position, c.tracker, swap)
    IN  [r EXCEPT
            !.token_compositions =
                [j \in DOMAIN @ |->
                    Append(@[j], <<timestamp, c.position.amount0, c.position.amount1>>)],
            !.contexts[i].position = t.position,
            !.contexts[i].tracker = t.tracker]

\* _process_swap, lines 98-100, with the composition entry taken after
\* tracker.track
ProcessSwapTrackThenComposition(r, i, swap, timestamp) ==
    LET c == r.contexts[i]
        t == ActivityTrack(c.position, c.tracker, swap)
    IN  [r EXCEPT
            !.token_compositions[i] =
                Append(@, <<timestamp, t.position.amount0, t.position.amount1>>),
            !.contexts[i].position = t.position,
            !.contexts[i].tracker = t.tracker]

\* _process_swap, lines 98-100: the composition entry and tracker.track
ProcessSwapTrack(r, i, swap, timestamp) ==
    LET c == r.contexts[i]
        t == ActivityTrack(c.position, c.tracker, swap)
    IN  [r EXCEPT
            !.token_compositions[i] =
                Append(@, <<timestamp, c.position.amount0, c.position.amount1>>),
            !.contexts[i].position = t.position,
            !.contexts[i].tracker = t.tracker]

\* RebalancerContext(tick=swap.tick, timestamp=timestamp, ...)
RebalancerContext(context, swap, timestamp) ==
    [tick |-> swap.tick, timestamp |-> timestamp,
     tick_lower |-> context.position.tick_lower,
     tick_upper |-> context.position.tick_upper,
     created_at |-> context.created_at]

\* _process_swap, lines 118-126, assigning the new lower bound only
ReplacePositionLowerOnly(r, i, timestamp, reb, tok) ==
    IF tok.raised # "none"
    THEN [raised |-> tok.raised,
          runner |-> [r EXCEPT !.contexts[i].rebalancer = <<reb.strat>>]]
    ELSE [raised |-> "none",
          runner |-> [r EXCEPT
              !.contexts[i].rebalancer = <<reb.strat>>,
              !.contexts[i].position.tick_lower = reb.lower,
              !.contexts[i].position.amount1 = tok.amount1,
              !.rebalance_events[i] = @ \o GetEventAt(reb.strat, timestamp)]]

\* _process_swap, lines 118-126, for the bounds reb the strategy returned
\* and tok the outcome of compute_token1_for_fixed_token0
ReplacePosition(r, i, timestamp, reb, tok) ==
    IF tok.raised # "none"
    THEN [raised |-> tok.raised,
          runner |-> [r EXCEPT !.contexts[i].rebalancer = <<reb.strat>>]]
    ELSE [raised |-> "none",
          runner |-> [r EXCEPT
              !.contexts[i].rebalancer = <<reb.strat>>,
              !.contexts[i].position.tick_lower = reb.lower,
              !.contexts[i].position.tick_upper = reb.upper,
              !.contexts[i].position.amount1 = tok.amount1,
              !.rebalance_events[i] = @ \o GetEventAt(reb.strat, timestamp)]]

\* _process_swap, lines 114-126, for reb the outcome of rebalancer.rebalance
RebalancePosition(r, i, swap, timestamp, reb) ==
    IF reb.raised # "none"
    THEN [raised |-> reb.raised,
          runner |-> [r EXCEPT !.contexts[i].rebalancer = <<reb.strat>>]]
    ELSE ReplacePosition(r, i, timestamp, reb,
             ComputeToken1ForFixedToken0(r.contexts[i].position.amount0,
                                         reb.lower, reb.upper, swap.tick))

\* _process_swap, lines 113-126, for should the outcome of
\* rebalancer.should_rebalance
RebalanceIfDue(r, i, swap, timestamp, should) ==
    IF should.raised # "none" \/ ~should.result
    THEN [raised |-> should.raised,
          runner |-> [r EXCEPT !.contexts[i].rebalancer = <<should.strat>>]]
    ELSE RebalancePosition(r, i, swap, timestamp,
             Rebalance(should.strat, RebalancerContext(r.contexts[i], swap, timestamp),
                       <<1, 2>>))

\* _process_swap, lines 102-126: the rebalancing block; [raised, runner],
\* runner being the object as a raise leaves it
ProcessSwapRebalance(r, i, swap, timestamp) ==
    IF r.contexts[i].rebalancer = <<>>
    THEN [raised |-> "none", runner |-> r]
    ELSE RebalanceIfDue(r, i, swap, timestamp,
             ShouldRebalance(r.contexts[i].rebalancer[1],
                             RebalancerContext(r.contexts[i], swap, timestamp)))

\* _process_swap, lines 133-146: the tick, the APR snapshot, the balances
ProcessSwapSnapshot(r, i, swap, timestamp) ==
    LET c == r.contexts[i]
    IN  [r EXCEPT
            !.tick_contexts[i] = DictPut(@, timestamp, swap.tick),
            !.contexts[i].apr_tracker =
                IF @ = <<>> THEN <<>>
                ELSE <<AprTrack(@[1], swap.timestamp,
                                c.position.amount0, c.position.amount1,
                                GetTotalFees(c.calculator).token0,
                                GetTotalFees(c.calculator).token1,
                                swap.sqrt_price_x96)>>,
            !.token_balances[i] =
                Append(@, <<timestamp, c.position.amount0, c.position.amount1>>)]

\* _process_swap, lines 130-146, for il the outcome of il_tracker.track_il
ProcessSwapIl(r, i, swap, timestamp, il) ==
    IF il.raised # "none"
    THEN [raised |-> il.raised, runner |-> r]
    ELSE [raised |-> "none",
          runner |-> ProcessSwapSnapshot(
                         [r EXCEPT !.contexts[i].il_tracker = <<il.tracker>>],
                         i, swap, timestamp)]

\* _process_swap, lines 129-146, for fee the outcome of calculator.track
ProcessSwapFee(r, i, swap, timestamp, fee) ==
    IF fee.raised
    THEN [raised |-> "ArithmeticError", runner |-> r]
    ELSE IF r.contexts[i].il_tracker = <<>>
    THEN [raised |-> "none",
          runner |-> ProcessSwapSnapshot(
                         [r EXCEPT !.contexts[i].calculator = CalculatorState(fee.calc)],
                         i, swap, timestamp)]
    ELSE ProcessSwapIl([r EXCEPT !.contexts[i].calculator = CalculatorState(fee.calc)],
                       i, swap, timestamp,
                       TrackIl(r.contexts[i].il_tracker[1], timestamp, swap.tick))

\* _process_swap, lines 128-146, with the active flag that tracker.track
\* recorded before the rebalancing block
ProcessSwapAccountTrackedFlag(r, i, swap, timestamp) ==
    ProcessSwapFee(r, i, swap, timestamp,
                   FeeTrack(CalculatorOf(r.contexts[i]), swap,
                            r.contexts[i].tracker.activity[Len(r.contexts[i].tracker.activity)]))

\* _process_swap, lines 128-146: fees, impermanent loss, tick, APR snapshot
\* and balances; [raised, runner]
ProcessSwapAccount(r, i, swap, timestamp) ==
    ProcessSwapFee(r, i, swap, timestamp,
                   FeeTrack(CalculatorOf(r.contexts[i]), swap,
                            IsActive(r.contexts[i].position, swap.tick)))

\* _process_swap after its rebalancing block, whose outcome is reb
ProcessSwapAfterRebalance(reb, i, swap, timestamp) ==
    IF reb.raised # "none" THEN reb
    ELSE ProcessSwapAccount(reb.runner, i, swap, timestamp)

\* GlobalClockBacktestRunner._process_swap: [raised, runner], runner being
\* the object as the raise leaves it
ProcessSwap(r, i, swap, timestamp) ==
    ProcessSwapAfterRebalance(
        ProcessSwapRebalance(ProcessSwapTrack(r, i, swap, timestamp), i, swap, timestamp),
        i, swap, timestamp)

\* BacktestResult.from_simulation
FromSimulation(context, apr_series, token_balances, token_composition, rebalancing_events) ==
    [total_fees_token0 |-> GetTotalFees(context.calculator).token0,
     total_fees_token1 |-> GetTotalFees(context.calculator).token1,
     apr_series |-> apr_series,
     activity_series |-> [timestamps |-> context.tracker.timestamps,
                          activity |-> context.tracker.activity],
     fee_series |-> [timestamps |-> context.calculator._timestamps,
                     fees |-> context.calculator._fees],
     il_series |-> IF context.il_tracker # <<>>
                   THEN ILTimeseries(context.il_tracker[1].il_series)
                   ELSE [timestamps |-> <<>>, values |-> <<>>],
     realized_il |-> IF context.il_tracker # <<>>
                     THEN ILTimeseries(context.il_tracker[1].realized_il_series)
                     ELSE [timestamps |-> <<>>, values |-> <<>>],
     token_balance_series |-> token_balances,
     token_composition_series |-> token_composition,
     swap_ticks |-> [k \in 1 .. Len(context.swaps) |->
                        <<context.swaps[k].timestamp, context.swaps[k].tick>>],
     initial_tick_lower |-> context.position.tick_lower,
     initial_tick_upper |-> context.position.tick_upper,
     rebalancing_events |-> rebalancing_events]

\* sorted({datetime(ts.year, ts.month, ts.day) for ts in timestamps})
DailyDates(timestamps) ==
    Sorted({DayOf(timestamps[k]) : k \in 1 .. Len(timestamps)})

\* the APR series of context i in _finalize_results: [raised, dates, aprs]
FinalAprSeries(r, i) ==
    IF r.contexts[i].apr_tracker # <<>>
    THEN ComputeAprOnDates(r.contexts[i].apr_tracker[1], DailyDates(r.global_timestamps))
    ELSE [raised |-> "none", dates |-> <<>>, aprs |-> <<>>]

\* _finalize_results, lines 160-170, for aprs the APR series of the contexts
ResultsFrom(r, aprs) ==
    IF \E i \in 1 .. Len(aprs) : aprs[i].raised # "none"
    THEN [raised |-> aprs[SetMin({i \in 1 .. Len(aprs) : aprs[i].raised # "none"})].raised,
          results |-> <<>>]
    ELSE [raised |-> "none",
          results |-> [i \in 1 .. Len(aprs) |->
              FromSimulation(r.contexts[i],
                             [dates |-> aprs[i].dates, aprs |-> aprs[i].aprs],
                             r.token_balances[i], r.token_compositions[i],
                             r.rebalance_events[i])]]

\* GlobalClockBacktestRunner._finalize_results: [raised, results]; the
\* first context whose APR series raises ends the loop
FinalizeResults(r) ==
    ResultsFrom(r, [i \in 1 .. Len(r.contexts) |-> FinalAprSeries(r, i)])

(***************************************************************************)
(* The steps of run(): the three nested loops and the return               *)
(***************************************************************************)
\* for t in self.global_timestamps: the next t
CanNextTimestamp(r) ==
    /\ r.pc = "run" /\ r.pending = <<>>
    /\ r.ci = Len(r.contexts) /\ r.ti < Len(r.global_timestamps)
StepNextTimestamp(r) == [r EXCEPT !.ti = @ + 1, !.ci = 0]

\* for i, context in enumerate(self.contexts): the next context and its
\* swaps_at_t
CanNextContext(r) ==
    /\ r.pc = "run" /\ r.pending = <<>>
    /\ r.ci < Len(r.contexts)
StepNextContext(r) ==
    [r EXCEPT !.ci = @ + 1,
              !.pending = SwapsAt(r.contexts[r.ci + 1].swaps, r.global_timestamps[r.ti])]

\* for swap in swaps_at_t: self._process_swap(i, context, swap, t); an
\* exception leaves run()
CanProcessSwap(r) == r.pc = "run" /\ r.pending # <<>>
ProcessSwapOutcome(p) ==
    IF p.raised # "none"
    THEN [p.runner EXCEPT !.pc = "raised", !.raised = p.raised]
    ELSE [p.runner EXCEPT !.pending = Tail(@)]
StepProcessSwap(r) ==
    ProcessSwapOutcome(ProcessSwap(r, r.ci, r.contexts[r.ci].swaps[Head(r.pending)],
                                   r.global_timestamps[r.ti]))

\* return self._finalize_results()
CanFinalize(r) ==
    /\ r.pc = "run" /\ r.pending = <<>>
    /\ r.ci = Len(r.contexts) /\ r.ti = Len(r.global_timestamps)
FinalizeOutcome(r, f) ==
    IF f.raised # "none"
    THEN [r EXCEPT !.pc = "raised", !.raised = f.raised]
    ELSE [r EXCEPT !.pc = "done", !.results = f.results]
StepFinalize(r) == FinalizeOutcome(r, FinalizeResults(r))

\* runner.run() from the state r to its return or its exception
RECURSIVE Run(_)
Run(r) ==
    IF CanProcessSwap(r) THEN Run(StepProcessSwap(r))
    ELSE IF CanNextContext(r) THEN Run(StepNextContext(r))
    ELSE IF CanNextTimestamp(r) THEN Run(StepNextTimestamp(r))
    ELSE IF CanFinalize(r) THEN StepFinalize(r)
    ELSE r

(***************************************************************************)
(* SpecFee: one FeeCalculator driven by any sequence of track calls        *)
(***************************************************************************)
MaxTrackCalls == 2

FeeVolumes == {-1, 0, 2}
FeeSwapLiquidities == {0, 3}
FeePositionLiquidities == {0, 1}
FeeTimestamps == {1, 2}
PoolFee == <<1, 10>>

FeeSwaps ==
    [tick : {0}, volume_token0 : {RInt(v) : v \in FeeVolumes},
     volume_token1 : {RInt(v) : v \in FeeVolumes},
     liquidity : {RInt(l) : l \in FeeSwapLiquidities},
     timestamp : FeeTimestamps, sqrt_price_x96 : {1}]

FeeInit ==
    /\ \E l \in FeePositionLiquidities :
          fc = [position |-> [liquidity |-> RInt(l), pool |-> [fee |-> PoolFee]],
                _timestamps |-> <<>>, _fees |-> <<>>, _total_fee |-> ZeroFee]
    /\ fcCalls = <<>>
    /\ pos = Idle /\ at = Idle /\ atCall = Idle
    /\ trCall = Idle /\ strat = Idle /\ stCall = Idle /\ stHistory = Idle
    /\ input = Idle /\ runner = Idle /\ processed = Idle
    /\ ilTracker = Idle /\ ilCall = Idle /\ apr = Idle /\ aprCall = Idle
    /\ compounder = Idle /\ cpPosition = Idle /\ cpCall = Idle

\* calc.track(swap, is_active); fee is the local computed at the top of track
Track ==
    /\ Len(fcCalls) < MaxTrackCalls
    /\ \E swap \in FeeSwaps, is_active \in BOOLEAN :
          LET r == FeeTrack(fc, swap, is_active)
              c == ComputeFeeForSwap(fc.position, swap)
          IN  /\ fc' = r.calc
              /\ fcCalls' = Append(fcCalls,
                     [swap |-> swap, is_active |-> is_active, raised |-> r.raised,
                      fee |-> c.fee, total_before |-> fc._total_fee])
    /\ UNCHANGED <<activityVars, tickRangeVars, strategyVars, runnerVars, ilVars,
                 aprVars, compounderVars>>

FeeNext == Track

SpecFee == FeeInit /\ [][FeeNext]_vars

(***************************************************************************)
(* SpecActivity: one ActivityTracker on a position whose bounds are        *)
(* replaced in place between calls                                         *)
(***************************************************************************)
MaxActivityTracks == 1

ActivityTicks == 0 .. 4
\* <<tick_lower, tick_upper>>: ranges, a zero-width range, an inverted pair
ActivityBounds == {<<0, 2>>, <<1, 1>>, <<1, 3>>, <<2, 3>>, <<3, 1>>}
ActivityLiquidities == {0, 3}

ActivitySwaps ==
    [tick : ActivityTicks, volume_token0 : {RInt(2)}, volume_token1 : {RInt(-1)},
     liquidity : {RInt(3)}, timestamp : {1}, sqrt_price_x96 : {1}]

ActivityInit ==
    /\ \E b \in ActivityBounds, l \in ActivityLiquidities :
          /\ pos = [tick_lower |-> b[1], tick_upper |-> b[2],
                    amount0 |-> RInt(1), amount1 |-> RInt(1),
                    liquidity |-> RInt(l), pool |-> [fee |-> PoolFee]]
          /\ atCall = [op |-> "init", tick |-> 0, result |-> FALSE,
                       init_lower |-> b[1], init_upper |-> b[2], replaced |-> FALSE]
    /\ at = [timestamps |-> <<>>, activity |-> <<>>,
             amounts_token0 |-> <<>>, amounts_token1 |-> <<>>]
    /\ fc = Idle /\ fcCalls = Idle
    /\ trCall = Idle /\ strat = Idle /\ stCall = Idle /\ stHistory = Idle
    /\ input = Idle /\ runner = Idle /\ processed = Idle
    /\ ilTracker = Idle /\ ilCall = Idle /\ apr = Idle /\ aprCall = Idle
    /\ compounder = Idle /\ cpPosition = Idle /\ cpCall = Idle

\* position.tick_lower = ..; position.tick_upper = .. (the runner on a
\* rebalance, the tests directly)
ReplaceBounds ==
    /\ \E b \in ActivityBounds :
          /\ b # <<pos.tick_lower, pos.tick_upper>>
          /\ pos' = [pos EXCEPT !.tick_lower = b[1], !.tick_upper = b[2]]
    /\ atCall' = [atCall EXCEPT !.op = "replace", !.replaced = TRUE]
    /\ UNCHANGED <<at, feeVars, tickRangeVars, strategyVars, runnerVars, ilVars, aprVars,
                 compounderVars>>

\* tracker.is_active(tick)
IsActiveCall ==
    /\ \E tick \in ActivityTicks :
          atCall' = [atCall EXCEPT !.op = "is_active", !.tick = tick,
                                   !.result = IsActive(pos, tick)]
    /\ UNCHANGED <<pos, at, feeVars, tickRangeVars, strategyVars, runnerVars, ilVars,
                 aprVars, compounderVars>>

\* tracker.track(swap)
ActivityTrackCall ==
    /\ Len(at.timestamps) < MaxActivityTracks
    /\ \E swap \in ActivitySwaps :
          LET r == ActivityTrack(pos, at, swap)
          IN  /\ pos' = r.position
              /\ at' = r.tracker
              /\ atCall' = [atCall EXCEPT !.op = "track", !.tick = swap.tick,
                                          !.result = IsActive(pos, swap.tick)]
    /\ UNCHANGED <<feeVars, tickRangeVars, strategyVars, runnerVars, ilVars, aprVars,
                 compounderVars>>

ActivityNext == ReplaceBounds \/ IsActiveCall \/ ActivityTrackCall

SpecActivity == ActivityInit /\ [][ActivityNext]_vars

(***************************************************************************)
(* SpecTickRange: compute_tick_range called on any arguments               *)
(***************************************************************************)
TickRangeTicks == {-3, 0, 7, 1500}
TickRangeWidths == {-3, 0, 1, 2, 3, 5, 100}
\* a float bias as <<numerator, denominator>>
TickRangeBiases ==
    {<<-1, 4>>, <<0, 1>>, <<1, 4>>, <<1, 3>>, <<1, 2>>, <<3, 4>>, <<1, 1>>, <<5, 4>>}

TickRangeInit ==
    /\ trCall = [called |-> FALSE, tick |-> 0, width |-> 0, bias |-> <<0, 1>>,
                 out |-> [raised |-> "none", lower |-> 0, upper |-> 0]]
    /\ fc = Idle /\ fcCalls = Idle
    /\ pos = Idle /\ at = Idle /\ atCall = Idle
    /\ strat = Idle /\ stCall = Idle /\ stHistory = Idle
    /\ input = Idle /\ runner = Idle /\ processed = Idle
    /\ ilTracker = Idle /\ ilCall = Idle /\ apr = Idle /\ aprCall = Idle
    /\ compounder = Idle /\ cpPosition = Idle /\ cpCall = Idle

\* compute_tick_range(tick, width, bias)
ComputeTickRangeCall ==
    /\ \E tick \in TickRangeTicks, width \in TickRangeWidths, bias \in TickRangeBiases :
          trCall' = [called |-> TRUE, tick |-> tick, width |-> width, bias |-> bias,
                     out |-> ComputeTickRange(tick, width, bias)]
    /\ UNCHANGED <<feeVars, activityVars, strategyVars, runnerVars, ilVars, aprVars,
                 compounderVars>>

TickRangeNext == ComputeTickRangeCall

SpecTickRange == TickRangeInit /\ [][TickRangeNext]_vars

(***************************************************************************)
(* SpecStrategy: one strategy object driven by any sequence of             *)
(* should_rebalance and rebalance calls                                    *)
(***************************************************************************)
MaxStrategyEvents == 1

StrategyTimes == 0 .. 3
StrategyTicks == {0, 2}
\* <<tick_lower, tick_upper>> of a context; the second pair is inverted
StrategyBounds == {<<1, 3>>, <<3, 1>>}
StrategyBiases == {<<-1, 4>>, <<1, 2>>, <<5, 4>>}

StrategyContexts ==
    {[tick |-> t, timestamp |-> ts, tick_lower |-> b[1], tick_upper |-> b[2],
      created_at |-> 0] : t \in StrategyTicks, ts \in StrategyTimes, b \in StrategyBounds}

\* the ticks at the two bounds of the range <<1, 3>> and above it
StrategyEdgeTicks == {1, 3, 4}

\* the contexts should_rebalance is asked about: those above and the range
\* <<1, 3>> seen from its bounds and from above
ShouldRebalanceContexts ==
    StrategyContexts
    \cup {[tick |-> t, timestamp |-> ts, tick_lower |-> 1, tick_upper |-> 3,
           created_at |-> 0] : t \in StrategyEdgeTicks, ts \in StrategyTimes}

Leaf(kind, interval, since) == Strategy(kind, interval, since, <<>>, "or")

\* OutOfRangeDurationRebalancer(duration=.., out_of_range_since=..): the
\* field can be given at construction
StrategyLeaves ==
    {Leaf("time", 0, NoTime), Leaf("time", 2, NoTime), Leaf("oor", 0, NoTime),
     Leaf("oord", 0, NoTime), Leaf("oord", 2, NoTime), Leaf("oord", 2, 1)}

StrategyChildren ==
    {Leaf("time", 2, NoTime), Leaf("oor", 0, NoTime), Leaf("oord", 2, 1)}

StrategyChildLists ==
    {<<>>} \cup {<<a>> : a \in StrategyChildren}
           \cup {<<a, b>> : a \in StrategyChildren, b \in StrategyChildren}

Multi(strategies, mode) == Strategy("multi", 0, NoTime, strategies, mode)

StrategyObjects ==
    StrategyLeaves
    \cup {Multi(l, m) : l \in StrategyChildLists, m \in {"and", "or"}}
    \cup {Multi(<<Multi(<<Leaf("oor", 0, NoTime), Leaf("time", 2, NoTime)>>, "and"),
                   Leaf("oord", 2, 1)>>, "or")}

\* the events of a strategy and of all its children
RECURSIVE CountEvents(_)
RECURSIVE CountEventsEach(_)
CountEventsEach(strategies) ==
    IF strategies = <<>> THEN 0
    ELSE CountEvents(Head(strategies)) + CountEventsEach(Tail(strategies))
CountEvents(s) == Len(s._events) + CountEventsEach(s.strategies)

NoCall ==
    [op |-> "init", context |-> CHOOSE c \in StrategyContexts : TRUE, bias |-> <<1, 2>>,
     raised |-> "none", result |-> FALSE, lower |-> 0, upper |-> 0]

StrategyInit ==
    /\ strat \in StrategyObjects
    /\ stCall = [NoCall EXCEPT !.op = "init"] @@ [before |-> strat]
    /\ fc = Idle /\ fcCalls = Idle
    /\ pos = Idle /\ at = Idle /\ atCall = Idle
    /\ stHistory = Idle
    /\ trCall = Idle
    /\ input = Idle /\ runner = Idle /\ processed = Idle
    /\ ilTracker = Idle /\ ilCall = Idle /\ apr = Idle /\ aprCall = Idle
    /\ compounder = Idle /\ cpPosition = Idle /\ cpCall = Idle

\* strat.should_rebalance(context)
ShouldRebalanceCall ==
    /\ \E context \in ShouldRebalanceContexts :
          LET r == ShouldRebalance(strat, context)
          IN  /\ strat' = r.strat
              /\ stCall' = [op |-> "should_rebalance", context |-> context,
                            bias |-> <<1, 2>>, raised |-> r.raised, result |-> r.result,
                            lower |-> 0, upper |-> 0, before |-> strat]
    /\ UNCHANGED <<stHistory, feeVars, activityVars, tickRangeVars, runnerVars, ilVars,
                 aprVars, compounderVars>>

\* strat.rebalance(context, bias)
RebalanceCall ==
    /\ \E context \in StrategyContexts, bias \in StrategyBiases :
          LET r == Rebalance(strat, context, bias)
          IN  /\ CountEvents(r.strat) <= MaxStrategyEvents
              /\ strat' = r.strat
              /\ stCall' = [op |-> "rebalance", context |-> context,
                            bias |-> bias, raised |-> r.raised, result |-> FALSE,
                            lower |-> r.lower, upper |-> r.upper, before |-> strat]
    /\ UNCHANGED <<stHistory, feeVars, activityVars, tickRangeVars, runnerVars, ilVars,
                 aprVars, compounderVars>>

StrategyNext == ShouldRebalanceCall \/ RebalanceCall

SpecStrategy == StrategyInit /\ [][StrategyNext]_vars

(***************************************************************************)
(* Spec: a GlobalClockBacktestRunner constructed on two contexts, run()    *)
(* taken one loop step at a time                                           *)
(***************************************************************************)
MaxTotalSwaps == 3

RunnerTimes == {1, 3}
RunnerTicks == {2, 5}

\* a swap at tick 2 sells token0 into a pool with liquidity, a swap at
\* tick 5 sells token1 into a pool with none
RunnerSwap(timestamp, tick) ==
    [tick |-> tick,
     volume_token0 |-> IF tick = 2 THEN RInt(2) ELSE RInt(-1),
     volume_token1 |-> IF tick = 2 THEN RInt(-1) ELSE RInt(2),
     liquidity |-> IF tick = 2 THEN RInt(3) ELSE RZero,
     timestamp |-> timestamp,
     sqrt_price_x96 |-> IPow(SqrtPriceBase, tick) * Q96]

RunnerSwaps == {RunnerSwap(ts, t) : ts \in RunnerTimes, t \in RunnerTicks}

\* the swap lists of at most n swaps, in any order of their timestamps
SwapLists(n) == UNION {[1 .. k -> RunnerSwaps] : k \in 0 .. n}

RunnerPosition(tick_lower, tick_upper, liquidity) ==
    [tick_lower |-> tick_lower, tick_upper |-> tick_upper,
     amount0 |-> RInt(1), amount1 |-> RZero,
     liquidity |-> RInt(liquidity), pool |-> [fee |-> PoolFee]]

RunnerIL == ImpermanentLossTracker(2, RInt(1), RZero, 1, 3)
RunnerAPR == APRTracker(RInt(1), RZero, 2, 1, 0)

\* contexts on a position with inverted bounds, one for each other variant
\* of the strategy
InvertedContexts(swaps) ==
    {PositionSimulationContext(RunnerPosition(3, 1, 3), 0, swaps, <<>>, <<>>, <<s>>) :
        s \in {Leaf("time", 0, NoTime), Leaf("oord", 0, 1),
               Multi(<<Leaf("oor", 0, NoTime)>>, "or")}}

\* the contexts built on one swap list: a bare one; out-of-range with IL
\* and APR; time-triggered with APR; a multi-condition with IL; a position
\* without liquidity and an APR tracker of an empty deposit; positions
\* with inverted bounds; a position of odd width; a multi-condition of
\* mode OR around one of mode AND
FirstContexts(swaps) ==
    {PositionSimulationContext(RunnerPosition(1, 3, 3), 0, swaps, <<>>, <<>>, <<>>),
     PositionSimulationContext(RunnerPosition(1, 3, 3), 0, swaps, <<RunnerIL>>,
                               <<RunnerAPR>>, <<Leaf("oor", 0, NoTime)>>),
     PositionSimulationContext(RunnerPosition(1, 3, 3), 0, swaps, <<>>,
                               <<RunnerAPR>>, <<Leaf("time", 1, NoTime)>>),
     PositionSimulationContext(RunnerPosition(1, 3, 3), 0, swaps, <<RunnerIL>>, <<>>,
         <<Multi(<<Leaf("oord", 2, NoTime), Leaf("oor", 0, NoTime)>>, "or")>>),
     PositionSimulationContext(RunnerPosition(1, 3, 0), 0, swaps, <<>>,
                               <<APRTracker(RZero, RZero, 2, 1, 0)>>, <<>>),
     PositionSimulationContext(RunnerPosition(3, 1, 3), 0, swaps, <<>>, <<>>,
                               <<Leaf("oor", 0, NoTime)>>)}
    \cup InvertedContexts(swaps)
    \cup {PositionSimulationContext(RunnerPosition(1, 4, 3), 0, swaps, <<>>, <<>>,
                                    <<Leaf("time", 0, NoTime)>>)}
    \cup {PositionSimulationContext(RunnerPosition(1, 3, 3), 0, swaps, <<>>, <<>>,
              <<Multi(<<Multi(<<Leaf("oord", 2, NoTime), Leaf("time", 1, NoTime)>>,
                              "and")>>, "or")>>)}

SecondContexts(swaps) ==
    {PositionSimulationContext(RunnerPosition(1, 3, 3), 0, swaps, <<>>, <<>>, <<>>),
     PositionSimulationContext(RunnerPosition(1, 3, 3), 0, swaps, <<RunnerIL>>,
                               <<RunnerAPR>>, <<Leaf("oor", 0, NoTime)>>)}

Init ==
    /\ \E s1 \in SwapLists(MaxTotalSwaps), s2 \in SwapLists(MaxTotalSwaps) :
          /\ Len(s1) + Len(s2) <= MaxTotalSwaps
          /\ \E c1 \in FirstContexts(s1), c2 \in SecondContexts(s2) :
                input = <<c1, c2>>
    /\ runner = GlobalClockBacktestRunner(input)
    /\ processed = [i \in 1 .. Len(input) |-> <<>>]
    /\ fc = Idle /\ fcCalls = Idle
    /\ pos = Idle /\ at = Idle /\ atCall = Idle
    /\ trCall = Idle /\ strat = Idle /\ stCall = Idle /\ stHistory = Idle
    /\ ilTracker = Idle /\ ilCall = Idle /\ apr = Idle /\ aprCall = Idle
    /\ compounder = Idle /\ cpPosition = Idle /\ cpCall = Idle

NextTimestamp ==
    /\ CanNextTimestamp(runner)
    /\ runner' = StepNextTimestamp(runner)
    /\ UNCHANGED <<input, processed, feeVars, activityVars, tickRangeVars, strategyVars,
                 ilVars, aprVars, compounderVars>>

NextContext ==
    /\ CanNextContext(runner)
    /\ runner' = StepNextContext(runner)
    /\ UNCHANGED <<input, processed, feeVars, activityVars, tickRangeVars, strategyVars,
                 ilVars, aprVars, compounderVars>>

ProcessSwapCall ==
    /\ CanProcessSwap(runner)
    /\ runner' = StepProcessSwap(runner)
    /\ processed' = [processed EXCEPT ![runner.ci] = Append(@, Head(runner.pending))]
    /\ UNCHANGED <<input, feeVars, activityVars, tickRangeVars, strategyVars, ilVars,
                 aprVars, compounderVars>>

Finalize ==
    /\ CanFinalize(runner)
    /\ runner' = StepFinalize(runner)
    /\ UNCHANGED <<input, processed, feeVars, activityVars, tickRangeVars, strategyVars,
                 ilVars, aprVars, compounderVars>>

Next == NextTimestamp \/ NextContext \/ ProcessSwapCall \/ Finalize

Spec == Init /\ [][Next]_vars

(***************************************************************************)
(* SpecDuration: one OutOfRangeDurationRebalancer asked should_rebalance   *)
(* at non-decreasing timestamps about a position with the range <<1, 3>>   *)
(***************************************************************************)
MaxDurationCalls == 3

DurationTimes == 0 .. 3
\* a tick below the range and a tick inside it
DurationTicks == {0, 2}

DurationContexts ==
    {[tick |-> t, timestamp |-> ts, tick_lower |-> 1, tick_upper |-> 3,
      created_at |-> 0] : t \in DurationTicks, ts \in DurationTimes}

DurationStrategies == {Leaf("oord", 0, NoTime), Leaf("oord", 2, NoTime)}

DurationInit ==
    /\ strat \in DurationStrategies
    /\ stCall = NoCall @@ [before |-> strat]
    /\ stHistory = <<>>
    /\ fc = Idle /\ fcCalls = Idle
    /\ pos = Idle /\ at = Idle /\ atCall = Idle
    /\ trCall = Idle
    /\ input = Idle /\ runner = Idle /\ processed = Idle
    /\ ilTracker = Idle /\ ilCall = Idle /\ apr = Idle /\ aprCall = Idle
    /\ compounder = Idle /\ cpPosition = Idle /\ cpCall = Idle

\* strat.should_rebalance(context), no earlier than the call before
DurationShouldRebalanceCall ==
    /\ Len(stHistory) < MaxDurationCalls
    /\ \E context \in DurationContexts :
          /\ stHistory # <<>> =>
                stHistory[Len(stHistory)].context.timestamp <= context.timestamp
          /\ \E r \in {ShouldRebalance(strat, context)} :
                /\ strat' = r.strat
                /\ stCall' = [op |-> "should_rebalance", context |-> context,
                              bias |-> <<1, 2>>, raised |-> r.raised,
                              result |-> r.result, lower |-> 0, upper |-> 0,
                              before |-> strat]
                /\ stHistory' = Append(stHistory, [context |-> context,
                                                   result |-> r.result])
    /\ UNCHANGED <<feeVars, activityVars, tickRangeVars, runnerVars, ilVars, aprVars,
                 compounderVars>>

DurationNext == DurationShouldRebalanceCall

SpecDuration == DurationInit /\ [][DurationNext]_vars

(***************************************************************************)
(* SpecRealizedIl: compute_realized_il called on any shares and any full   *)
(* impermanent loss                                                        *)
(***************************************************************************)
\* token0 shares of a composition: a share is a value in [0, 1]
RealizedIlShares == {RZero, <<1, 4>>, <<1, 2>>, ROne}
\* full impermanent losses: zero, a loss and a gain, small and large
RealizedIlFullValues == {RZero, <<-1, 10>>, <<1, 2>>, <<-3, 1>>}

RealizedIlInit ==
    /\ \E e \in RealizedIlShares, c \in RealizedIlShares, t \in RealizedIlShares,
          f \in RealizedIlFullValues :
          ilCall = [entry_token0_ratio |-> e, current_token0_ratio |-> c,
                    target_token0_ratio |-> t, full_il |-> f,
                    called |-> FALSE, raised |-> "none", value |-> <<>>]
    /\ fc = Idle /\ fcCalls = Idle
    /\ pos = Idle /\ at = Idle /\ atCall = Idle
    /\ trCall = Idle /\ strat = Idle /\ stCall = Idle /\ stHistory = Idle
    /\ input = Idle /\ runner = Idle /\ processed = Idle
    /\ ilTracker = Idle /\ apr = Idle /\ aprCall = Idle
    /\ compounder = Idle /\ cpPosition = Idle /\ cpCall = Idle

ComputeRealizedIlCall ==
    /\ ~ilCall.called
    /\ \E r \in {ComputeRealizedIl(ilCall.entry_token0_ratio, ilCall.current_token0_ratio,
                                   ilCall.target_token0_ratio, ilCall.full_il)} :
          ilCall' = [ilCall EXCEPT !.called = TRUE, !.raised = r.raised,
                                   !.value = r.value]
    /\ UNCHANGED <<ilTracker, feeVars, activityVars, tickRangeVars, strategyVars,
                 runnerVars, aprVars, compounderVars>>

RealizedIlNext == ComputeRealizedIlCall

SpecRealizedIl == RealizedIlInit /\ [][RealizedIlNext]_vars

(***************************************************************************)
(* SpecApr: one APRTracker driven by any sequence of track calls, in any   *)
(* order of their timestamps, and asked compute_apr_on_dates on any list   *)
(* of query dates                                                          *)
(***************************************************************************)
MaxAprTracks == 2
\* days 0, 2 and 4 at midnight, and a time within day 2
AprTimes == {0, 2, 3, 4}

\* the arguments of track after the timestamp: position amounts, total
\* fees, sqrtPriceX96 (Q96 is the price 1.0 of raw units)
AprSample(token0, token1, fee_token0, fee_token1, sqrtPriceX96) ==
    [token0 |-> RInt(token0), token1 |-> RInt(token1),
     fee_token0 |-> RInt(fee_token0), fee_token1 |-> RInt(fee_token1),
     sqrtPriceX96 |-> sqrtPriceX96]
AprSamples ==
    {AprSample(100, 0, 1, 0, Q96), AprSample(100, 0, 2, 0, Q96),
     AprSample(50, 40, 1, 1, 2 * Q96)}

\* trackers as constructed: 100 token0 alone, with equal and with unequal
\* decimals, both tokens, and no tokens at all
AprTrackers ==
    {APRTracker(RInt(100), RZero, 0, 0, 0), APRTracker(RInt(100), RZero, 0, 1, 0),
     APRTracker(RInt(10), RInt(10), 0, 0, 0), APRTracker(RZero, RZero, 0, 0, 0)}

\* lists of at most two query dates, in any order, repeated or not
AprQueryLists == UNION {[1 .. k -> AprTimes] : k \in 0 .. 2}

AprInit ==
    /\ apr \in AprTrackers
    /\ aprCall = [op |-> "none", tracked |-> <<>>, query_dates |-> <<>>,
                  raised |-> "none", dates |-> <<>>, aprs |-> <<>>]
    /\ fc = Idle /\ fcCalls = Idle
    /\ pos = Idle /\ at = Idle /\ atCall = Idle
    /\ trCall = Idle /\ strat = Idle /\ stCall = Idle /\ stHistory = Idle
    /\ input = Idle /\ runner = Idle /\ processed = Idle
    /\ ilTracker = Idle /\ ilCall = Idle
    /\ compounder = Idle /\ cpPosition = Idle /\ cpCall = Idle

\* tracker.track(timestamp, token0, token1, fee_token0, fee_token1, sqrtPriceX96)
AprTrackCall ==
    /\ Len(aprCall.tracked) < MaxAprTracks
    /\ \E timestamp \in AprTimes, s \in AprSamples :
          /\ apr' = AprTrack(apr, timestamp, s.token0, s.token1, s.fee_token0,
                             s.fee_token1, s.sqrtPriceX96)
          /\ aprCall' = [op |-> "track",
                         tracked |-> Append(aprCall.tracked,
                                            [timestamp |-> timestamp, sample |-> s]),
                         query_dates |-> <<>>,
                         raised |-> "none", dates |-> <<>>, aprs |-> <<>>]
    /\ UNCHANGED <<feeVars, activityVars, tickRangeVars, strategyVars, runnerVars,
                 ilVars, compounderVars>>

\* tracker.compute_apr_on_dates(query_dates)
ComputeAprOnDatesCall ==
    /\ \E query_dates \in AprQueryLists :
          \E r \in {ComputeAprOnDates(apr, query_dates)} :
              aprCall' = [op |-> "compute", tracked |-> aprCall.tracked,
                          query_dates |-> query_dates,
                          raised |-> r.raised, dates |-> r.dates, aprs |-> r.aprs]
    /\ UNCHANGED <<apr, feeVars, activityVars, tickRangeVars, strategyVars, runnerVars,
                 ilVars, compounderVars>>

AprNext == AprTrackCall \/ ComputeAprOnDatesCall

SpecApr == AprInit /\ [][AprNext]_vars

(***************************************************************************)
(* SpecCompounder: one Compounder asked should_compound and told to        *)
(* compound a position, on any contexts in any order                       *)
(***************************************************************************)
MaxCompounds == 2

CompounderTimes == 0 .. 3
CompounderFees == {Fee(RInt(1), RZero), Fee(RZero, RInt(2))}

\* the trigger lists: none, one trigger, two triggers of which the second
\* was constructed with a last_compounded
CompounderTriggerLists ==
    {<<>>, <<TimeTrigger(1, NoTime)>>, <<TimeTrigger(1, NoTime), TimeTrigger(1, 2)>>}

\* interval >= 0 (validate_interval)
CompounderObjects ==
    {Compounder(i, t, m) : i \in {0, 2}, t \in CompounderTriggerLists, m \in {"and", "or"}}

CompounderContexts ==
    {[timestamp |-> ts, created_at |-> 0, accumulated_fees |-> f] :
        ts \in CompounderTimes, f \in CompounderFees}

CompounderInit ==
    /\ compounder \in CompounderObjects
    /\ cpPosition = RunnerPosition(1, 3, 3)
    /\ cpCall = [op |-> "init", context |-> CHOOSE c \in CompounderContexts : TRUE,
                 argument |-> CHOOSE c \in CompounderContexts : TRUE,
                 fees |-> ZeroFee, result |-> FALSE,
                 before |-> compounder, position_before |-> cpPosition,
                 compounds |-> <<>>]
    /\ fc = Idle /\ fcCalls = Idle
    /\ pos = Idle /\ at = Idle /\ atCall = Idle
    /\ trCall = Idle /\ strat = Idle /\ stCall = Idle /\ stHistory = Idle
    /\ input = Idle /\ runner = Idle /\ processed = Idle
    /\ ilTracker = Idle /\ ilCall = Idle /\ apr = Idle /\ aprCall = Idle

\* compounder.should_compound(context)
ShouldCompoundCall ==
    /\ \E context \in CompounderContexts :
          cpCall' = [cpCall EXCEPT !.op = "should_compound", !.context = context,
                                   !.argument = context, !.fees = ZeroFee,
                                   !.result = ShouldCompound(compounder, context),
                                   !.before = compounder,
                                   !.position_before = cpPosition]
    /\ UNCHANGED <<compounder, cpPosition>>
    /\ UNCHANGED <<feeVars, activityVars, tickRangeVars, strategyVars, runnerVars, ilVars, aprVars>>

\* compounder.compound(position, fees, context); the compound is entered in
\* cpCall.compounds with `asked`: the call before it was should_compound on
\* the same context and returned True
CompoundCall ==
    /\ Len(cpCall.compounds) < MaxCompounds
    /\ \E context \in CompounderContexts, fees \in CompounderFees :
          \E r \in {Compound(compounder, cpPosition, fees, context)} :
              /\ compounder' = r.compounder
              /\ cpPosition' = r.position
              /\ cpCall' = [op |-> "compound", context |-> r.context,
                            argument |-> context, fees |-> fees, result |-> FALSE,
                            before |-> compounder, position_before |-> cpPosition,
                            compounds |-> Append(cpCall.compounds,
                                [timestamp |-> context.timestamp, fees |-> fees,
                                 asked |-> /\ cpCall.op = "should_compound"
                                           /\ cpCall.result
                                           /\ cpCall.argument = context])]
    /\ UNCHANGED <<feeVars, activityVars, tickRangeVars, strategyVars, runnerVars, ilVars, aprVars>>

CompounderNext == ShouldCompoundCall \/ CompoundCall

SpecCompounder == CompounderInit /\ [][CompounderNext]_vars

(***************************************************************************)
(* SpecIl: one ImpermanentLossTracker told to track_il on any ticks        *)
(***************************************************************************)
MaxIlTracks == 2

IlTimes == 0 .. 2
IlTicks == {-2, 0, 2, 5}

\* trackers of the range [1, 3] entered at 2, at 3 and at 0, and of a range
\* around the tick 0 entered at 0
IlTrackers ==
    {ImpermanentLossTracker(2, RInt(1), RInt(1), 1, 3),
     ImpermanentLossTracker(3, RInt(1), RZero, 1, 3),
     ImpermanentLossTracker(0, RInt(1), RInt(1), 1, 3),
     ImpermanentLossTracker(0, RInt(1), RInt(1), -1, 1)}

IlInit ==
    /\ ilTracker \in IlTrackers
    /\ ilCall = [op |-> "init", timestamp |-> 0, tick |-> 0, raised |-> "none",
                 before |-> ilTracker, calls |-> 0]
    /\ fc = Idle /\ fcCalls = Idle
    /\ pos = Idle /\ at = Idle /\ atCall = Idle
    /\ trCall = Idle /\ strat = Idle /\ stCall = Idle /\ stHistory = Idle
    /\ input = Idle /\ runner = Idle /\ processed = Idle
    /\ apr = Idle /\ aprCall = Idle
    /\ compounder = Idle /\ cpPosition = Idle /\ cpCall = Idle

\* il_tracker.track_il(timestamp, current_tick)
TrackIlCall ==
    /\ ilCall.calls < MaxIlTracks
    /\ \E timestamp \in IlTimes, tick \in IlTicks :
          \E r \in {TrackIl(ilTracker, timestamp, tick)} :
              /\ ilTracker' = r.tracker
              /\ ilCall' = [op |-> "track_il", timestamp |-> timestamp, tick |-> tick,
                            raised |-> r.raised, before |-> ilTracker,
                            calls |-> ilCall.calls + 1]
    /\ UNCHANGED <<feeVars, activityVars, tickRangeVars, strategyVars, runnerVars, aprVars,
                   compounderVars>>

IlNext == TrackIlCall

SpecIl == IlInit /\ [][IlNext]_vars

(***************************************************************************)
(* Properties of the fee calculator                                        *)
(***************************************************************************)
FeeCallIds == 1 .. Len(fcCalls)

\* C3: after any sequence of track calls the running total equals, per
\* token, the sum of the Fee records of the series; when every call was
\* inactive the total is zero on both tokens.
C3_TotalIsSumOfRecords ==
    /\ GetTotalFees(fc) = SumFees(fc._fees)
    /\ (\A i \in FeeCallIds : ~fcCalls[i].is_active) => GetTotalFees(fc) = ZeroFee

\* an active fee-bearing call and an inactive call whose swap also bears a fee
C3_Witness ==
    /\ Len(fc._fees) = 2
    /\ \E i, j \in FeeCallIds :
          /\ fcCalls[i].is_active /\ ~fcCalls[j].is_active
          /\ fcCalls[i].fee # ZeroFee /\ fcCalls[j].fee # ZeroFee
    /\ GetTotalFees(fc) # ZeroFee

\* C4: every track call appends exactly one (timestamp, Fee) record carrying
\* the swap's timestamp, the zero fee when is_active is false, and the
\* running totals change only when is_active is true.
C4_OneRecordPerTrackCall ==
    /\ Len(fc._fees) = Len(fcCalls)
    /\ Len(fc._timestamps) = Len(fcCalls)
    /\ \A i \in FeeCallIds :
          /\ i <= Len(fc._timestamps) /\ fc._timestamps[i] = fcCalls[i].swap.timestamp
          /\ ~fcCalls[i].is_active => fc._fees[i] = ZeroFee
          /\ ~fcCalls[i].is_active =>
                 fcCalls[i].total_before =
                     (IF i < Len(fcCalls) THEN fcCalls[i + 1].total_before
                      ELSE fc._total_fee)

\* C5: the fee is zero on both tokens, and nothing is raised, whenever the
\* position's liquidity is zero and whenever swap.liquidity +
\* position.liquidity is zero.
C5_ZeroLiquidityGivesZeroFee ==
    \A i \in FeeCallIds :
        (\/ RIsZero(fc.position.liquidity)
         \/ RIsZero(RAdd(fcCalls[i].swap.liquidity, fc.position.liquidity)))
        => (~fcCalls[i].raised /\ fcCalls[i].fee = ZeroFee)

\* C6: only the inbound token is charged: pool.fee x volume x share on
\* token0 when volume0 > 0 > volume1, on token1 when volume1 > 0 > volume0,
\* zero on both tokens in every other sign combination; at most one token
\* of a Fee is non-zero.
C6_FeeOnInboundTokenOnly ==
    \A i \in FeeCallIds :
        LET sw == fcCalls[i].swap
            own == fc.position.liquidity
            share == RDiv(own, RAdd(sw.liquidity, own))
        IN  /\ ~fcCalls[i].raised
            /\ fcCalls[i].fee =
                  (IF RPos(sw.volume_token0) /\ RNeg(sw.volume_token1)
                   THEN Fee(RMul(RMul(PoolFee, sw.volume_token0), share), RZero)
                   ELSE IF RPos(sw.volume_token1) /\ RNeg(sw.volume_token0)
                   THEN Fee(RZero, RMul(RMul(PoolFee, sw.volume_token1), share))
                   ELSE ZeroFee)
            /\ (RIsZero(fcCalls[i].fee.token0) \/ RIsZero(fcCalls[i].fee.token1))

(***************************************************************************)
(* Properties of the activity tracker and the token-amount formula         *)
(***************************************************************************)
\* C7: is_active(tick) is true exactly when tick_lower <= tick <= tick_upper,
\* both bounds inclusive, for the bounds the position has at the call, also
\* after they were replaced in place.
C7_IsActiveInclusiveCurrentBounds ==
    atCall.op = "is_active" =>
        (atCall.result <=> (pos.tick_lower <= atCall.tick /\ atCall.tick <= pos.tick_upper))

\* is_active answered true at the upper bound of bounds that replaced the
\* initial ones, for a tick the initial bounds exclude
C7_Witness ==
    /\ atCall.op = "is_active" /\ atCall.replaced /\ atCall.result
    /\ atCall.tick = pos.tick_upper /\ pos.tick_lower < pos.tick_upper
    /\ ~(atCall.init_lower <= atCall.tick /\ atCall.tick <= atCall.init_upper)

\* C8: for tick_lower <= tick_upper and every liquidity, the amounts track
\* writes into the position are those of the token-amount formula, with
\* amount1 = 0 for a tick at or below tick_lower and amount0 = 0 for a tick
\* at or above tick_upper.
C8_AmountsOutsideRange ==
    (atCall.op = "track" /\ pos.tick_lower <= pos.tick_upper) =>
        /\ atCall.tick <= pos.tick_lower => RIsZero(pos.amount1)
        /\ atCall.tick >= pos.tick_upper => RIsZero(pos.amount0)
        /\ <<pos.amount0, pos.amount1>> =
               ComputeTokenAmountsFromLiquidity(pos.tick_lower, pos.tick_upper,
                                                pos.liquidity, atCall.tick)
        /\ at.amounts_token0[Len(at.amounts_token0)] = pos.amount0
        /\ at.amounts_token1[Len(at.amounts_token1)] = pos.amount1

\* a swap strictly below a proper range of a position with liquidity: all
\* of the value is token0
C8_Witness ==
    /\ atCall.op = "track" /\ atCall.tick < pos.tick_lower
    /\ pos.tick_lower < pos.tick_upper
    /\ ~RIsZero(pos.amount0) /\ RIsZero(pos.amount1)

(***************************************************************************)
(* Properties of compute_tick_range and of the strategies                  *)
(***************************************************************************)
\* C9: for width >= 0 and a bias in [0, 1], compute_tick_range returns
\* (tick - left, tick + right) with left = floor(width x bias) and
\* right = width - left: a range of exactly the given width that contains the
\* tick; compute_tick_range(1500, 100, 0.25) = (1475, 1575).
C9_TickRangeWidthAndBias ==
    (trCall.called /\ trCall.width >= 0 /\ BiasInRange(trCall.bias)) =>
        LET left == (trCall.width * trCall.bias[1]) \div trCall.bias[2]
            right == trCall.width - left
        IN  /\ trCall.out.raised = "none"
            /\ trCall.out.lower = trCall.tick - left
            /\ trCall.out.upper = trCall.tick + right
            /\ trCall.out.upper - trCall.out.lower = trCall.width
            /\ trCall.out.lower <= trCall.tick /\ trCall.tick <= trCall.out.upper
            /\ (trCall.tick = 1500 /\ trCall.width = 100 /\ trCall.bias = <<1, 4>>)
                  => (trCall.out.lower = 1475 /\ trCall.out.upper = 1575)

\* the call of the test: compute_tick_range(1500, 100, 0.25)
C9_Witness ==
    /\ trCall.called /\ trCall.tick = 1500 /\ trCall.width = 100
    /\ trCall.bias = <<1, 4>> /\ trCall.out.lower = 1475 /\ trCall.out.upper = 1575

\* a strategy with every out_of_range_since set to None
RECURSIVE ClearSince(_)
ClearSince(s) ==
    [s EXCEPT !.out_of_range_since = NoTime,
              !.strategies = [i \in 1 .. Len(s.strategies) |-> ClearSince(s.strategies[i])]]

BadBiasRebalance == stCall.op = "rebalance" /\ ~BiasInRange(stCall.bias)

ShouldRebalanceReturned(kind) ==
    /\ stCall.op = "should_rebalance" /\ stCall.raised = "none"
    /\ stCall.before.kind = kind

\* the time of the last rebalance the strategy recorded before the call, or
\* the creation time of the position
LastRebalanceOrCreation ==
    IF stCall.before._events = <<>> THEN stCall.context.created_at
    ELSE stCall.before._events[Len(stCall.before._events)].timestamp

\* C11 as stated: TimeTriggeredRebalancer.should_rebalance returns true if
\* and only if the time since the last rebalance (or the creation) is >=
\* the interval.
C11_TimeFiresAtInterval ==
    ShouldRebalanceReturned("time") =>
        (stCall.result <=>
            stCall.context.timestamp - LastRebalanceOrCreation >= stCall.before.interval)

\* C11 amended: it returns true if and only if the time since the last
\* rebalance (or the creation) is strictly greater than the interval; at
\* exactly one interval it does not fire.
C11_TimeFiresAfterInterval ==
    ShouldRebalanceReturned("time") =>
        (stCall.result <=>
            stCall.context.timestamp - LastRebalanceOrCreation > stCall.before.interval)

\* a call exactly one positive interval after a recorded rebalance, which
\* returned false
C11_Witness ==
    /\ ShouldRebalanceReturned("time")
    /\ stCall.before._events # <<>>
    /\ stCall.before.interval > 0
    /\ stCall.context.timestamp - LastRebalanceOrCreation = stCall.before.interval
    /\ ~stCall.result

\* C12: after a TimeTriggeredRebalancer rebalanced at t, should_rebalance
\* returns false at t and up to t + interval included, and true later than
\* t + interval; asked again at t it does not ask for a second rebalance.
C12_QuietForOneIntervalAfterRebalance ==
    (ShouldRebalanceReturned("time") /\ stCall.before._events # <<>>) =>
        LET t == stCall.before._events[Len(stCall.before._events)].timestamp
            ts == stCall.context.timestamp
        IN  /\ (t <= ts /\ ts <= t + stCall.before.interval) => ~stCall.result
            /\ ts > t + stCall.before.interval => stCall.result

\* a call at the very timestamp of the rebalance, by a strategy whose
\* interval is zero, which returned false
C12_Witness ==
    /\ ShouldRebalanceReturned("time")
    /\ stCall.before._events # <<>>
    /\ stCall.before.interval = 0
    /\ stCall.context.timestamp = stCall.before._events[1].timestamp
    /\ stCall.context.timestamp > stCall.context.created_at
    /\ ~stCall.result

\* C13: OutOfRangeRebalancer.should_rebalance returns true exactly when the
\* tick is strictly below tick_lower or strictly above tick_upper, so never
\* at a bound; the answer is that of the context alone, whatever events the
\* strategy has logged, and the call changes nothing in the strategy.
C13_OutOfRangeStrictlyOutside ==
    ShouldRebalanceReturned("oor") =>
        /\ stCall.result <=> (\/ stCall.context.tick < stCall.context.tick_lower
                              \/ stCall.context.tick > stCall.context.tick_upper)
        /\ strat = stCall.before

\* a call at the lower bound on a strategy that has logged a rebalance,
\* which returned false
C13_Witness ==
    /\ ShouldRebalanceReturned("oor")
    /\ stCall.before._events # <<>>
    /\ stCall.context.tick = stCall.context.tick_lower
    /\ ~stCall.result

\* the calls of the history from the k-th to the last saw the tick out of
\* range
OutOfRangeSince(k) == \A j \in k .. Len(stHistory) : ~InRange(stHistory[j].context)

\* the last call of the history came at least the duration after time t
DurationElapsedSince(t) ==
    stHistory[Len(stHistory)].context.timestamp - t >= strat.interval

\* C14: OutOfRangeDurationRebalancer.should_rebalance returns true only if
\* the tick is out of range and has been so in every call since some call
\* at least the duration earlier, or in every call since a creation of the
\* position at least the duration earlier.
C14_FiresOnlyAfterContinuousExcursion ==
    (stHistory # <<>> /\ stHistory[Len(stHistory)].result) =>
        /\ ~InRange(stHistory[Len(stHistory)].context)
        /\ \/ \E k \in 1 .. Len(stHistory) :
                 /\ OutOfRangeSince(k)
                 /\ DurationElapsedSince(stHistory[k].context.timestamp)
           \/ /\ OutOfRangeSince(1)
              /\ DurationElapsedSince(stHistory[1].context.created_at)

\* the outcome of should_rebalance of the i-th child, as it was before the
\* call, on the context of the call
ChildCheck(i) == ShouldRebalance(stCall.before.strategies[i], stCall.context)

\* C15: MultiConditionRebalancer.should_rebalance returns false for an
\* empty child list; otherwise every child is evaluated on the context of
\* the call (each child is left as its own should_rebalance leaves it) and
\* the result is the conjunction of the children's results in AND mode and
\* their disjunction in OR mode.
C15_MultiAggregatesEveryChild ==
    ShouldRebalanceReturned("multi") =>
        LET children == 1 .. Len(stCall.before.strategies)
        IN  /\ children = {} => (~stCall.result /\ strat = stCall.before)
            /\ children # {} =>
                  /\ stCall.result <=>
                        IF stCall.before.mode = "and"
                        THEN \A i \in children : ChildCheck(i).result
                        ELSE \E i \in children : ChildCheck(i).result
                  /\ \A i \in children : strat.strategies[i] = ChildCheck(i).strat

\* an AND of two children that answered true and false, in this order, the
\* second of which had its out-of-range marker cleared by the call
C15_Witness ==
    /\ ShouldRebalanceReturned("multi")
    /\ stCall.before.mode = "and"
    /\ Len(stCall.before.strategies) = 2
    /\ ChildCheck(1).result /\ ~ChildCheck(2).result
    /\ strat.strategies[2] # stCall.before.strategies[2]
    /\ ~stCall.result

\* a rebalance call made on a MultiConditionRebalancer with a valid bias
\* and bounds in order
MultiRebalanceCalled ==
    /\ stCall.op = "rebalance" /\ stCall.before.kind = "multi"
    /\ BiasInRange(stCall.bias)
    /\ ~TickBoundsInverted(stCall.context.tick_lower, stCall.context.tick_upper)

\* the children whose own should_rebalance holds for the context of the call
EligibleChildren ==
    {i \in 1 .. Len(stCall.before.strategies) : ChildCheck(i).result}

RDistance(a, b) == <<Abs(RSub(a, b)[1]), RSub(a, b)[2]>>

\* C18: compute_realized_il never raises; it returns exactly 0 when the
\* target share equals the current share and when the entry share equals
\* the current share, whatever full_il is; otherwise its value v is
\* |target - current| / |entry - current| * full_il * 100, that is
\* v * |entry - current| = |target - current| * full_il * 100.
C18_RealizedIlZeroOrFraction ==
    ilCall.called =>
        /\ ilCall.raised = "none"
        /\ IF \/ ilCall.target_token0_ratio = ilCall.current_token0_ratio
              \/ ilCall.entry_token0_ratio = ilCall.current_token0_ratio
           THEN ilCall.value = RZero
           ELSE RMul(ilCall.value, RDistance(ilCall.entry_token0_ratio,
                                             ilCall.current_token0_ratio))
                = RMul(RMul(RDistance(ilCall.target_token0_ratio,
                                      ilCall.current_token0_ratio),
                            ilCall.full_il), RInt(100))

\* a call whose entry share equals the current share while the target
\* share differs and full_il is not zero: the denominator is zero
C18_Witness ==
    /\ ilCall.called
    /\ ilCall.entry_token0_ratio = ilCall.current_token0_ratio
    /\ ilCall.target_token0_ratio # ilCall.current_token0_ratio
    /\ ~RIsZero(ilCall.full_il)
    /\ ilCall.value = RZero

(***************************************************************************)
(* Properties of the APR tracker                                           *)
(***************************************************************************)
\* the scenario of test_apr_tracker_with_il_adjustment on the methods the
\* tracker has: 100 token0 and no token1 at the price 1.0, a fee sample of
\* 1 token0 tracked on day 1 and on day 2 with the position unchanged, and
\* the return series asked on day 3
AprScenario ==
    /\ apr.initial_token0_scaled = RInt(100) /\ apr.initial_token1_scaled = RZero
    /\ aprCall.op = "compute"
    /\ Len(aprCall.tracked) = 2
    /\ aprCall.tracked[1] = [timestamp |-> 0, sample |-> AprSample(100, 0, 1, 0, Q96)]
    /\ aprCall.tracked[2] = [timestamp |-> DayLength,
                             sample |-> AprSample(100, 0, 1, 0, Q96)]
    /\ aprCall.query_dates = <<2 * DayLength>>

\* C19: in the scenario the return series asked on day 3 has exactly one
\* value, within 0.01 of 182.5.
C19_ScenarioYields182 ==
    AprScenario =>
        /\ aprCall.raised = "none" /\ Len(aprCall.aprs) = 1
        /\ ~RNeg(RSub(aprCall.aprs[1], <<18249, 100>>))
        /\ ~RNeg(RSub(<<18251, 100>>, aprCall.aprs[1]))

\* the days of the track calls made so far
AprTrackedDays ==
    {DayOf(aprCall.tracked[k].timestamp) : k \in 1 .. Len(aprCall.tracked)}

\* the last track call made on a timestamp of the day
AprLastCallOn(day) ==
    aprCall.tracked[SetMax({k \in 1 .. Len(aprCall.tracked) :
                               DayOf(aprCall.tracked[k].timestamp) = day})]

\* the snapshot that a track call stores: its amounts and fees divided by
\* 10 ** decimals of their token, and its sqrtPriceX96
AprSnapshotOf(call) ==
    <<Scale(call.sample.token0, apr.token0_decimals),
      Scale(call.sample.token1, apr.token1_decimals),
      Scale(call.sample.fee_token0, apr.token0_decimals),
      Scale(call.sample.fee_token1, apr.token1_decimals),
      call.sample.sqrtPriceX96>>

\* C25: after any sequence of track calls the tracker holds one snapshot
\* for each calendar day a call fell on and for no other day, the snapshot
\* of a day being that of the last call made on that day, and start_date
\* is the day of the first call; before any call there is no snapshot and
\* no start_date.
C25_OneSnapshotPerDayLastWins ==
    /\ DOMAIN apr.end_states_by_day = AprTrackedDays
    /\ \A day \in AprTrackedDays :
          apr.end_states_by_day[day] = AprSnapshotOf(AprLastCallOn(day))
    /\ apr.start_date =
          IF aprCall.tracked = <<>> THEN NoTime ELSE DayOf(aprCall.tracked[1].timestamp)

\* two calls on the same day, the second with another sample and an
\* earlier timestamp: one snapshot, that of the second call
C25_Witness ==
    /\ Len(aprCall.tracked) = 2
    /\ aprCall.tracked[1].timestamp = DayLength + 1
    /\ aprCall.tracked[2].timestamp = DayLength
    /\ aprCall.tracked[1].sample # aprCall.tracked[2].sample
    /\ DOMAIN apr.end_states_by_day = {DayLength}
    /\ apr.end_states_by_day[DayLength] = AprSnapshotOf(aprCall.tracked[2])
    /\ apr.start_date = DayLength

\* the day of the first track call
AprStartDate == DayOf(aprCall.tracked[1].timestamp)

\* a query date strictly after the start date, by at least one day
AprDue(query_date) ==
    query_date > AprStartDate /\ query_date - AprStartDate >= DayLength

\* the last track call of the most recent tracked day <= query_date
AprSnapshotCall(query_date) ==
    LET days == {DayOf(aprCall.tracked[k].timestamp) : k \in 1 .. Len(aprCall.tracked)}
        last_day == SetMax({d \in days : d <= query_date})
    IN  aprCall.tracked[SetMax({k \in 1 .. Len(aprCall.tracked) :
                                  DayOf(aprCall.tracked[k].timestamp) = last_day})]

\* amount0 of token0 and amount1 of token1 as one amount of token1, at the
\* adjusted price of sqrtPriceX96
AprValueInToken1(amount0, amount1, sqrtPriceX96) ==
    RAdd(Scale(amount1, apr.token1_decimals),
         RMul(Scale(amount0, apr.token0_decimals),
              SqrtPriceX96ToPriceAdjusted(sqrtPriceX96, apr.token0_decimals,
                                          apr.token1_decimals)))

AprLpValue(query_date) ==
    LET s == AprSnapshotCall(query_date).sample
    IN  AprValueInToken1(RAdd(s.token0, s.fee_token0), RAdd(s.token1, s.fee_token1),
                         s.sqrtPriceX96)

AprHoldValue(query_date) ==
    RAdd(apr.initial_token1_scaled,
         RMul(apr.initial_token0_scaled,
              SqrtPriceX96ToPriceAdjusted(AprSnapshotCall(query_date).sample.sqrtPriceX96,
                                          apr.token0_decimals, apr.token1_decimals)))

CompoundedFees == [k \in 1 .. Len(cpCall.compounds) |-> cpCall.compounds[k].fees]

\* C21: compound(position, fees, context) adds fees.token0 and fees.token1
\* to the amounts of the position and changes nothing else of it, sets
\* context.accumulated_fees to zero, appends one CompoundEvent with the
\* timestamp of the context and the added amounts, and sets last_compounded
\* to that timestamp; after any sequence of calls
\* get_total_compounded_fees is the per-token sum of the fees compounded.
C21_CompoundFoldsFees ==
    /\ cpCall.op = "compound" =>
          /\ cpPosition =
                [cpCall.position_before EXCEPT
                    !.amount0 = RAdd(@, cpCall.fees.token0),
                    !.amount1 = RAdd(@, cpCall.fees.token1)]
          /\ cpCall.context = [cpCall.argument EXCEPT !.accumulated_fees = ZeroFee]
          /\ compounder._compound_events =
                Append(cpCall.before._compound_events,
                       [timestamp |-> cpCall.argument.timestamp,
                        added_token0 |-> cpCall.fees.token0,
                        added_token1 |-> cpCall.fees.token1])
          /\ compounder.last_compounded = cpCall.argument.timestamp
          /\ compounder = [cpCall.before EXCEPT
                              !._compound_events = compounder._compound_events,
                              !.last_compounded = compounder.last_compounded]
    /\ Len(compounder._compound_events) = Len(cpCall.compounds)
    /\ GetTotalCompoundedFees(compounder) = SumFees(CompoundedFees)

\* a second compound, of fees of both tokens in all, whose fees argument is
\* not the accumulated fees of its context
C21_Witness ==
    /\ cpCall.op = "compound" /\ Len(cpCall.compounds) = 2
    /\ cpCall.fees # cpCall.argument.accumulated_fees
    /\ cpCall.compounds[1].fees # cpCall.compounds[2].fees
    /\ cpCall.context.accumulated_fees = ZeroFee
    /\ GetTotalCompoundedFees(compounder) = Fee(RInt(1), RInt(2))

\* trigger k of the compounder holds on the context: start_delay has
\* elapsed since its own last_compounded or, without one, since created_at
TriggerHolds(c, k, context) ==
    IF c.triggers[k].last_compounded # NoTime
    THEN context.timestamp - c.triggers[k].last_compounded >= c.triggers[k].start_delay
    ELSE context.timestamp - context.created_at >= c.triggers[k].start_delay

\* C22: should_compound is false when a compound was made less than
\* `interval` before the timestamp of the context; otherwise it is true
\* without triggers, the conjunction of the triggers in the mode AND and
\* their disjunction in the mode OR; it changes nothing.  When every
\* compound was made on a context for which should_compound had just
\* returned true, consecutive compounds are at least `interval` apart.
C22_CompoundsAtLeastIntervalApart ==
    /\ cpCall.op = "should_compound" =>
          /\ compounder = cpCall.before /\ cpPosition = cpCall.position_before
          /\ cpCall.context = cpCall.argument
          /\ cpCall.result =
                IF /\ compounder.last_compounded # NoTime
                   /\ cpCall.argument.timestamp - compounder.last_compounded
                          < compounder.interval
                THEN FALSE
                ELSE IF compounder.triggers = <<>> THEN TRUE
                ELSE IF compounder.mode = "and"
                THEN \A k \in 1 .. Len(compounder.triggers) :
                        TriggerHolds(compounder, k, cpCall.argument)
                ELSE \E k \in 1 .. Len(compounder.triggers) :
                        TriggerHolds(compounder, k, cpCall.argument)
    /\ (\A k \in 1 .. Len(cpCall.compounds) : cpCall.compounds[k].asked) =>
          \A k \in 1 .. Len(cpCall.compounds) - 1 :
              cpCall.compounds[k + 1].timestamp - cpCall.compounds[k].timestamp
                  >= compounder.interval

\* two compounds, each made after should_compound returned true, exactly
\* one interval apart, of a compounder with a trigger in the mode AND
C22_Witness ==
    /\ cpCall.op = "compound" /\ Len(cpCall.compounds) = 2
    /\ cpCall.compounds[1].asked /\ cpCall.compounds[2].asked
    /\ compounder.interval = 2 /\ compounder.mode = "and"
    /\ Len(compounder.triggers) = 1
    /\ cpCall.compounds[2].timestamp - cpCall.compounds[1].timestamp = 2

(***************************************************************************)
(* Properties of the rebalancing step of the runner                        *)
(***************************************************************************)
ContextIds == 1 .. Len(input)

\* the swap that the step of _process_swap at hand processes, its context
\* after tracker.track(swap) and the RebalancerContext built from it
SwapAtHand == runner.contexts[runner.ci].swaps[Head(runner.pending)]
TimestampAtHand == runner.global_timestamps[runner.ti]
TrackedAtHand ==
    ProcessSwapTrack(runner, runner.ci, SwapAtHand, TimestampAtHand).contexts[runner.ci]
ContextAtHand == RebalancerContext(TrackedAtHand, SwapAtHand, TimestampAtHand)

\* _process_swap is entered, returns, and the rebalancer of its context
\* holds on the swap
RebalanceAtHand ==
    /\ CanProcessSwap(runner) /\ runner'.pc = "run"
    /\ TrackedAtHand.rebalancer # <<>>
    /\ ShouldRebalance(TrackedAtHand.rebalancer[1], ContextAtHand).raised = "none"
    /\ ShouldRebalance(TrackedAtHand.rebalancer[1], ContextAtHand).result

\* the bounds of the width of the position around the tick of the swap,
\* bias 0.5, and the liquidity and token1 amount for its token0 amount
BoundsAtHand ==
    ComputeTickRange(SwapAtHand.tick,
                     TrackedAtHand.position.tick_upper - TrackedAtHand.position.tick_lower,
                     <<1, 2>>)
AmountsAtHand ==
    ComputeToken1ForFixedToken0(TrackedAtHand.position.amount0,
                                BoundsAtHand.lower, BoundsAtHand.upper, SwapAtHand.tick)

\* the answer of should_rebalance in the step of _process_swap at hand
ShouldAtHand == ShouldRebalance(TrackedAtHand.rebalancer[1], ContextAtHand)

\* the children of a strategy, none for a variant without children
ChildrenOf(s) == IF s.kind = "multi" THEN s.strategies ELSE <<>>

\* C32: in a run the "no eligible strategy" error of the multi-condition
\* strategy is never raised: rebalance is called only when should_rebalance
\* has just held on the same context, and evaluating should_rebalance again
\* on that context, on the strategy and on its children, gives the answers
\* and leaves the state of the evaluation just made.
C32_NoEligibleStrategyErrorUnreachable ==
    [][(CanProcessSwap(runner) /\ TrackedAtHand.rebalancer # <<>>) =>
          /\ runner'.raised # "RuntimeError"
          /\ (ShouldAtHand.raised = "none" /\ ShouldAtHand.result) =>
                /\ ShouldRebalance(ShouldAtHand.strat, ContextAtHand) = ShouldAtHand
                /\ ShouldRebalanceEach(ChildrenOf(ShouldAtHand.strat), ContextAtHand).checks
                     = ShouldRebalanceEach(ChildrenOf(TrackedAtHand.rebalancer[1]),
                                           ContextAtHand).checks
                /\ Rebalance(ShouldAtHand.strat, ContextAtHand, <<1, 2>>).raised = "none"]_vars

\* a multi-condition strategy of mode OR around one of mode AND has
\* rebalanced its position in a run
C32_Witness ==
    /\ input[1].rebalancer # <<>>
    /\ input[1].rebalancer[1].kind = "multi" /\ input[1].rebalancer[1].mode = "or"
    /\ Len(input[1].rebalancer[1].strategies) = 1
    /\ input[1].rebalancer[1].strategies[1].kind = "multi"
    /\ input[1].rebalancer[1].strategies[1].mode = "and"
    /\ Len(runner.rebalance_events[1]) >= 1
    /\ runner.contexts[1].position.tick_lower # input[1].position.tick_lower

\* C23: when the rebalancer of the context holds on a swap, _process_swap
\* leaves the position with the new bounds, the new token1 amount and the
\* new liquidity, with its token0 amount and its pool as they were, and
\* one more rebalancing event, that of the new bounds.
C23_RebalanceReplacesPosition ==
    [][RebalanceAtHand =>
          /\ runner'.contexts[runner.ci].position =
                [TrackedAtHand.position EXCEPT
                    !.tick_lower = BoundsAtHand.lower,
                    !.tick_upper = BoundsAtHand.upper,
                    !.amount1 = AmountsAtHand.amount1,
                    !.liquidity = AmountsAtHand.liquidity]
          /\ runner'.rebalance_events[runner.ci] =
                Append(runner.rebalance_events[runner.ci],
                       RebalanceEvent(ContextAtHand, BoundsAtHand.lower,
                                      BoundsAtHand.upper))]_vars

\* the position of the context at hand as _process_swap leaves it
PositionLeft == runner'.contexts[runner.ci].position
ActiveLeft ==
    PositionLeft.tick_lower <= SwapAtHand.tick /\ SwapAtHand.tick <= PositionLeft.tick_upper

\* C33: each rebalance that _process_swap performs adds exactly one entry
\* to the rebalancing events of its context, and the new bounds of that
\* entry are the bounds of the position right after the rebalance, also
\* when an earlier swap of the same timestamp has rebalanced the position.
C33_OneEventPerRebalanceWithItsBounds ==
    [][RebalanceAtHand =>
          /\ Len(runner'.rebalance_events[runner.ci])
                = Len(runner.rebalance_events[runner.ci]) + 1
          /\ runner'.rebalance_events[runner.ci]
                [Len(runner'.rebalance_events[runner.ci])].new_tick_lower
                = PositionLeft.tick_lower
          /\ runner'.rebalance_events[runner.ci]
                [Len(runner'.rebalance_events[runner.ci])].new_tick_upper
                = PositionLeft.tick_upper]_vars

\* C24: a swap that _process_swap processes enters the fee series with
\* its computed fee, which is added to the total, if and only if its tick
\* lies within the bounds of the position as the rebalancing block of this
\* same call left them; otherwise it enters with a zero fee and the total
\* stays.
C24_FeeActiveOnBoundsAfterRebalance ==
    [][(CanProcessSwap(runner) /\ runner'.pc = "run") =>
          /\ runner'.contexts[runner.ci].calculator._fees =
                Append(runner.contexts[runner.ci].calculator._fees,
                       IF ActiveLeft THEN ComputeFeeForSwap(PositionLeft, SwapAtHand).fee
                       ELSE ZeroFee)
          /\ runner'.contexts[runner.ci].calculator._total_fee =
                IF ActiveLeft
                THEN SumFees(<<runner.contexts[runner.ci].calculator._total_fee,
                               ComputeFeeForSwap(PositionLeft, SwapAtHand).fee>>)
                ELSE runner.contexts[runner.ci].calculator._total_fee]_vars

\* a first swap outside the bounds the position had, so recorded inactive
\* by the tracker, that moved the bounds and accrued a fee
C24_Witness ==
    /\ runner.pc = "run"
    /\ runner.contexts[1].tracker.activity = <<FALSE>>
    /\ runner.rebalance_events[1] # <<>>
    /\ Len(runner.contexts[1].calculator._fees) = 1
    /\ runner.contexts[1].calculator._fees[1] # ZeroFee
    /\ runner.contexts[1].calculator._total_fee = runner.contexts[1].calculator._fees[1]
    /\ runner.contexts[1].position.tick_lower # input[1].position.tick_lower

\* the entry of the activity series that _process_swap leaves for its swap
ActivityLeft ==
    runner'.contexts[runner.ci].tracker.activity
        [Len(runner'.contexts[runner.ci].tracker.activity)]

\* C34: for every swap that _process_swap processes, the fee of the swap
\* is accrued as active, with the flag calculator.track is given, if and
\* only if the activity series entry recorded for that swap is true.
C34_ActivityEntryIsFeeFlag ==
    [][(CanProcessSwap(runner) /\ runner'.pc = "run") =>
          /\ Len(runner'.contexts[runner.ci].tracker.activity)
                = Len(runner.contexts[runner.ci].tracker.activity) + 1
          /\ ActivityLeft <=> ActiveLeft]_vars

(***************************************************************************)
(* Properties of the impermanent-loss samples of the runner                *)
(***************************************************************************)
\* the tick clamped into [lower, upper]
ClampTick(tick, lower, upper) ==
    IF tick < lower THEN lower ELSE IF tick > upper THEN upper ELSE tick

\* the unrealized-IL samples of the context at hand before and after the step
IlSeriesAtHand == runner.contexts[runner.ci].il_tracker[1].il_series
IlSeriesLeft == runner'.contexts[runner.ci].il_tracker[1].il_series

\* C26: the IL sample that _process_swap records for a swap is
\* compute_impermanent_loss of the tick of the swap clamped into the bounds
\* the position has when the sample is taken, that is after the
\* rebalancing block of the same call.
C26_IlSampleClampedToCurrentBounds ==
    [][(/\ CanProcessSwap(runner) /\ runner'.pc = "run"
        /\ runner.contexts[runner.ci].il_tracker # <<>>) =>
          /\ Len(IlSeriesLeft) = Len(IlSeriesAtHand) + 1
          /\ IlSeriesLeft[Len(IlSeriesLeft)][1] = TimestampAtHand
          /\ IlSeriesLeft[Len(IlSeriesLeft)][2][2] =
                ClampTick(SwapAtHand.tick, PositionLeft.tick_lower,
                          PositionLeft.tick_upper)]_vars

\* C27: track_il of a tracker with entry_tick = 0 fails on the division by
\* entry_tick, whatever the tick and the range: the error leaves the call
\* and the tracker is as before, no sample being appended.  (A tracker
\* with another entry_tick inside its range of positive ticks, when the
\* range is not the one tick entry_tick, records one sample.)
C27_ZeroEntryTickRaises ==
    ilCall.op = "track_il" =>
        IF ilCall.before.entry_tick = 0
        THEN /\ ilCall.raised = "ArithmeticError"
             /\ ilTracker = ilCall.before
        ELSE /\ ilCall.raised = "none"
             /\ Len(ilTracker.il_series) = Len(ilCall.before.il_series) + 1
             /\ ilTracker.il_series[Len(ilTracker.il_series)][1] = ilCall.timestamp

\* a second call on a tracker with entry_tick = 0, of a tick inside its
\* range, failed like the first: the series is empty
C27_Witness ==
    /\ ilCall.op = "track_il" /\ ilCall.calls = 2
    /\ ilCall.before.entry_tick = 0
    /\ ilCall.before.tick_lower <= ilCall.tick /\ ilCall.tick <= ilCall.before.tick_upper
    /\ ilCall.raised = "ArithmeticError"
    /\ ilTracker.il_series = <<>>

\* the timestamps of the rebalancing events of context i
RebalanceTimestamps(i) ==
    [k \in 1 .. Len(runner.rebalance_events[i]) |-> runner.rebalance_events[i][k].timestamp]

\* C28: between the calls of _process_swap the realized-IL series of a
\* context with an IL tracker has one sample for each rebalancing event of
\* the context, with the timestamp of that event, and the realized_il
\* series of its result has these entries.
C28_RealizedIlSamplePerRebalance ==
    \A i \in ContextIds :
        (runner.contexts[i].il_tracker # <<>> /\ runner.pc # "raised") =>
            /\ ILTimeseries(runner.contexts[i].il_tracker[1].realized_il_series).timestamps
                   = RebalanceTimestamps(i)
            /\ runner.pc = "done" =>
                   runner.results[i].realized_il.timestamps = RebalanceTimestamps(i)

\* no position of the input has inverted bounds, the one input on which a
\* component raises a validation error
ValidInput ==
    \A i \in ContextIds : input[i].position.tick_lower <= input[i].position.tick_upper

\* C29: on contexts none of which raises a validation error run() does not
\* end in an exception, and when it has returned every swap of every
\* context has been processed once and the results are one for each
\* context, in the order of the contexts.
C29_ValidInputsReturnOneResultEach ==
    ValidInput =>
        /\ runner.pc # "raised"
        /\ runner.pc = "done" =>
              /\ Len(runner.results) = Len(input)
              /\ \A i \in ContextIds :
                    /\ Len(processed[i]) = Len(input[i].swaps)
                    /\ {processed[i][k] : k \in 1 .. Len(processed[i])}
                           = 1 .. Len(input[i].swaps)
                    /\ runner.results[i].swap_ticks =
                           [k \in 1 .. Len(input[i].swaps) |->
                               <<input[i].swaps[k].timestamp, input[i].swaps[k].tick>>]

\* the events a strategy holds: its own, or those of its children
RECURSIVE EventsOf(_)
RECURSIVE EventsOfEach(_)
EventsOfEach(strategies) ==
    IF strategies = <<>> THEN <<>>
    ELSE EventsOf(Head(strategies)) \o EventsOfEach(Tail(strategies))
EventsOf(s) == IF s.kind = "multi" THEN EventsOfEach(s.strategies) ELSE s._events

\* the rebalancing events of context i: those the runner collected and
\* those its strategy holds
EventsOfContext(i) ==
    runner.rebalance_events[i]
        \o (IF runner.contexts[i].rebalancer = <<>> THEN <<>>
            ELSE EventsOf(runner.contexts[i].rebalancer[1]))

InitialWidth(i) == input[i].position.tick_upper - input[i].position.tick_lower

\* C30: a position that starts with tick_upper >= tick_lower keeps
\* tick_upper >= tick_lower and its initial width through every swap and
\* rebalance of the run, and every RebalanceEvent of its context has that
\* width between its new bounds and its rebalance_tick within them.
C30_WidthKeptAcrossRebalances ==
    \A i \in ContextIds :
        InitialWidth(i) >= 0 =>
            /\ runner.contexts[i].position.tick_upper
                   >= runner.contexts[i].position.tick_lower
            /\ runner.contexts[i].position.tick_upper
                   - runner.contexts[i].position.tick_lower = InitialWidth(i)
            /\ \A k \in 1 .. Len(EventsOfContext(i)) :
                  LET e == EventsOfContext(i)[k]
                  IN  /\ e.new_tick_upper - e.new_tick_lower = InitialWidth(i)
                      /\ e.new_tick_lower <= e.rebalance_tick
                      /\ e.rebalance_tick <= e.new_tick_upper

\* a position of the odd width 3 rebalanced twice, to different bounds
C30_Witness ==
    /\ InitialWidth(1) = 3
    /\ Len(runner.rebalance_events[1]) = 2
    /\ runner.rebalance_events[1][1].new_tick_lower
           # runner.rebalance_events[1][2].new_tick_lower
    /\ runner.contexts[1].position.tick_lower = runner.rebalance_events[1][2].new_tick_lower
    /\ runner.contexts[1].position.tick_lower # input[1].position.tick_lower
    /\ runner.pc = "done"

(***************************************************************************)
(* Properties of the series a run returns                                  *)
(***************************************************************************)
\* the timestamps of the swaps of context i in the order run() took them
ProcessedTimestamps(i) ==
    [k \in 1 .. Len(processed[i]) |-> input[i].swaps[processed[i][k]].timestamp]

\* the timestamps of a list of (timestamp, amount0, amount1) entries
EntryTimestamps(entries) == [k \in 1 .. Len(entries) |-> entries[k][1]]

\* C31: after a run every per-swap series of a context has one entry per
\* swap of the context and the same timestamp sequence: fee_series,
\* activity_series, token_balance_series, token_composition_series, and
\* il_series when an IL tracker is attached; il_series and realized_il are
\* empty when none is attached.
C31_SeriesHaveOneEntryPerSwap ==
    runner.pc = "done" =>
        \A i \in ContextIds :
            LET res == runner.results[i]
            IN  /\ Len(ProcessedTimestamps(i)) = Len(input[i].swaps)
                /\ res.fee_series.timestamps = ProcessedTimestamps(i)
                /\ Len(res.fee_series.fees) = Len(input[i].swaps)
                /\ res.activity_series.timestamps = ProcessedTimestamps(i)
                /\ Len(res.activity_series.activity) = Len(input[i].swaps)
                /\ EntryTimestamps(res.token_balance_series) = ProcessedTimestamps(i)
                /\ EntryTimestamps(res.token_composition_series) = ProcessedTimestamps(i)
                /\ IF input[i].il_tracker # <<>>
                   THEN /\ res.il_series.timestamps = ProcessedTimestamps(i)
                        /\ Len(res.il_series.values) = Len(input[i].swaps)
                   ELSE /\ res.il_series = [timestamps |-> <<>>, values |-> <<>>]
                        /\ res.realized_il = [timestamps |-> <<>>, values |-> <<>>]

\* a run returned for a context with an IL tracker and two swaps, one of
\* them inactive, next to a context without an IL tracker and one swap
C31_Witness ==
    /\ runner.pc = "done"
    /\ input[1].il_tracker # <<>> /\ Len(input[1].swaps) = 2
    /\ input[2].il_tracker = <<>> /\ Len(input[2].swaps) = 1
    /\ runner.results[1].activity_series.activity[1] = FALSE
    /\ Len(runner.results[1].il_series.timestamps) = 2
    /\ Len(runner.results[1].rebalancing_events) >= 1

\* C35: the initial_tick_lower and initial_tick_upper of the result of a
\* context are the bounds its position had when the run started, however
\* many rebalances the run made.
C35_InitialBoundsAreThoseAtStart ==
    runner.pc = "done" =>
        \A i \in ContextIds :
            /\ runner.results[i].initial_tick_lower = input[i].position.tick_lower
            /\ runner.results[i].initial_tick_upper = input[i].position.tick_upper

\* the token amounts of an (timestamp, amount0, amount1) entry and of a
\* position
AmountsOf(entry) == <<entry[2], entry[3]>>
PositionAmounts(position) == <<position.amount0, position.amount1>>

\* C36: the token amounts of a position change only inside the pipeline of
\* a swap of its context: the first composition entry of a context holds
\* the amounts the position started with, the composition entry of each
\* later swap holds the amounts of the balance entry of the swap before
\* it, whatever contexts were processed in between, and between two
\* swaps the position holds the amounts of its last balance entry.
C36_CompositionContinuesLastBalance ==
    \A i \in ContextIds :
        /\ Len(runner.token_compositions[i]) >= 1 =>
              AmountsOf(runner.token_compositions[i][1]) = PositionAmounts(input[i].position)
        /\ \A n \in 1 .. Len(runner.token_compositions[i]) - 1 :
              AmountsOf(runner.token_compositions[i][n + 1])
                  = AmountsOf(runner.token_balances[i][n])
        /\ runner.pc # "raised" =>
              PositionAmounts(runner.contexts[i].position)
                  = IF runner.token_balances[i] = <<>>
                    THEN PositionAmounts(input[i].position)
                    ELSE AmountsOf(runner.token_balances[i][Len(runner.token_balances[i])])

\* two swaps of the first context with a swap of the second one processed
\* between them, each of the two changing the amounts of the position
C36_Witness ==
    /\ runner.pc = "done"
    /\ processed[1] = <<1, 2>> /\ processed[2] = <<1>>
    /\ input[1].swaps[1].timestamp = 1 /\ input[1].swaps[2].timestamp = 3
    /\ input[2].swaps[1].timestamp = 1
    /\ AmountsOf(runner.token_balances[1][1]) # PositionAmounts(input[1].position)
    /\ AmountsOf(runner.token_balances[1][2]) # AmountsOf(runner.token_balances[1][1])
    /\ AmountsOf(runner.token_compositions[1][2]) = AmountsOf(runner.token_balances[1][1])
    /\ AmountsOf(runner.token_balances[2][1]) # AmountsOf(runner.token_balances[1][1])

(***************************************************************************)
(* Properties of the global-clock runner                                   *)
(***************************************************************************)

\* runner.run() on a runner constructed on context i of the input alone
Alone(i) == Run(GlobalClockBacktestRunner(<<input[i]>>))

\* the fields of a BacktestResult other than apr_series
ResultFieldsButApr ==
    {"total_fees_token0", "total_fees_token1", "activity_series", "fee_series",
     "il_series", "realized_il", "token_balance_series", "token_composition_series",
     "swap_ticks", "initial_tick_lower", "initial_tick_upper", "rebalancing_events"}

\* the entries of an APR series as <<date, apr>> pairs
AprPairs(series) == [k \in 1 .. Len(series.dates) |-> <<series.dates[k], series.aprs[k]>>]

\* the calendar days on which a context has a swap
SwapDays(context) ==
    {DayOf(context.swaps[k].timestamp) : k \in 1 .. Len(context.swaps)}

\* C1 as stated: when run() returns, the result of every context equals, in
\* every field, the result of running that context alone.
C1_ResultEqualsAlone ==
    runner.pc = "done" =>
        \A i \in ContextIds :
            Alone(i).pc = "done" /\ runner.results[i] = Alone(i).results[1]

\* C1 amended: when run() returns, the result of every context equals the
\* result of running that context alone in every field but apr_series; the
\* entries of apr_series on the context's own swap days are those of the
\* run alone, and every other entry is on a day another context has a swap.
C1_ResultEqualsAloneButAprDates ==
    runner.pc = "done" =>
        \A i \in ContextIds :
            LET together == runner.results[i]
                alone == Alone(i)
            IN  /\ alone.pc = "done"
                /\ \A f \in ResultFieldsButApr : together[f] = alone.results[1][f]
                /\ SelectSeq(AprPairs(together.apr_series),
                             LAMBDA p : p[1] \in SwapDays(input[i]))
                     = AprPairs(alone.results[1].apr_series)
                /\ \A k \in 1 .. Len(together.apr_series.dates) :
                      together.apr_series.dates[k] \notin SwapDays(input[i]) =>
                          \E j \in ContextIds \ {i} :
                              together.apr_series.dates[k] \in SwapDays(input[j])

\* a returned run of two contexts with swaps at interleaved timestamps, the
\* first of which rebalanced and has an APR entry on a day of the second
C1_Witness ==
    /\ runner.pc = "done"
    /\ Len(processed[1]) >= 1 /\ Len(processed[2]) >= 2
    /\ Len(runner.results[1].rebalancing_events) >= 1
    /\ \E k \in 1 .. Len(runner.results[1].apr_series.dates) :
          runner.results[1].apr_series.dates[k] \notin SwapDays(input[1])
    /\ runner.results[2].total_fees_token0 # RZero

NonDecreasing(s) == \A a, b \in 1 .. Len(s) : a < b => s[a] <= s[b]

\* C2: in every state of a run the swaps of a context handed to
\* _process_swap are in ascending order of timestamp and, at equal
\* timestamps, of list position (so none is handed twice); the timestamps of
\* the fee, activity and token-balance series are non-decreasing; and when
\* run() returns every swap of every context has been processed.
C2_SwapsInTimestampThenListOrder ==
    \A i \in ContextIds :
        LET p == processed[i]
            swaps == input[i].swaps
            c == runner.contexts[i]
        IN  /\ \A a, b \in 1 .. Len(p) :
                  a < b => \/ swaps[p[a]].timestamp < swaps[p[b]].timestamp
                           \/ /\ swaps[p[a]].timestamp = swaps[p[b]].timestamp
                              /\ p[a] < p[b]
            /\ NonDecreasing(c.calculator._timestamps)
            /\ NonDecreasing(c.tracker.timestamps)
            /\ NonDecreasing([k \in 1 .. Len(runner.token_balances[i]) |->
                                 runner.token_balances[i][k][1]])
            /\ runner.pc = "done" =>
                  /\ {p[k] : k \in 1 .. Len(p)} = 1 .. Len(swaps)
                  /\ Len(runner.results[i].fee_series.timestamps) = Len(swaps)
                  /\ Len(runner.results[i].activity_series.timestamps) = Len(swaps)
                  /\ Len(runner.results[i].token_balance_series) = Len(swaps)

\* a returned run in which a context listed a later swap before two swaps
\* of one earlier timestamp
C2_Witness ==
    /\ runner.pc = "done"
    /\ \E i \in ContextIds :
          /\ processed[i] = <<2, 3, 1>>
          /\ input[i].swaps[2].timestamp = input[i].swaps[3].timestamp
          /\ input[i].swaps[2] # input[i].swaps[3]

\* the contexts with a strategy whose position was given inverted bounds
InvertedIds ==
    {i \in ContextIds : /\ input[i].rebalancer # <<>>
                        /\ input[i].position.tick_upper < input[i].position.tick_lower}

\* C17: the first swap of a context whose position has tick_upper <
\* tick_lower makes should_rebalance, of whichever variant, fail with the
\* validation error: the strategy is as it was constructed, no rebalance
\* has happened, the error leaves run() and run() produces no result for
\* any context; no later swap of any context is processed.
C17_InvertedBoundsEndTheRun ==
    /\ runner.pc = "raised" => runner.results = <<>>
    /\ \A i \in InvertedIds :
          processed[i] # <<>> =>
              /\ runner.pc = "raised" /\ runner.raised = "ValueError"
              /\ Len(processed[i]) = 1
              /\ runner.contexts[i].rebalancer = input[i].rebalancer
              /\ runner.rebalance_events[i] = <<>>
              /\ runner.contexts[i].position.tick_lower = input[i].position.tick_lower
              /\ runner.contexts[i].position.tick_upper = input[i].position.tick_upper
              /\ runner.contexts[i].calculator._fees = <<>>

\* a run ended by the validation error of a time-triggered strategy that
\* was due, after the other context had processed a swap, with a swap of
\* the failing context left unprocessed
C17_Witness ==
    /\ runner.pc = "raised" /\ runner.raised = "ValueError"
    /\ 1 \in InvertedIds /\ input[1].rebalancer[1].kind = "time"
    /\ Len(processed[1]) = 1 /\ Len(input[1].swaps) = 2
    /\ input[1].swaps[processed[1][1]].timestamp > input[1].created_at
    /\ Len(processed[2]) = 1

====
